---- MODULE Spec2Model ----
(***************************************************************************)
(* coffer: a local secrets manager.  This module models                    *)
(*   - the versioned secret store (internal/store, SQLiteStore),           *)
(*   - the environment inheritance resolver built on it,                   *)
(*   - the vault / session manager (internal/vault, Vault),                *)
(*   - the commands that decrypt secrets (cmd).                            *)
(* Optional values (a *T that may be nil, a row that may be absent) are    *)
(* sequences of length 0 or 1.  Byte strings that are only compared are    *)
(* strings; secret keys are sequences of byte codes, so that their         *)
(* lexicographic order is computed as Go and SQLite compute it.            *)
(***************************************************************************)
EXTENDS Integers, Sequences, FiniteSets, TLC

VARIABLES
    projects,       \* rows of table projects: set of project ids
    environments,   \* rows of table environments: [id, project, parent]
    secrets,        \* rows of table secrets (live rows)
    history,        \* rows of table secret_history, in insertion order
    nextId,         \* fresh identifiers handed out by uuid.New()
    ret,            \* what the last call returned: [op, env, key, err, res]
    vault,          \* what a Vault works on: [dbExists, meta, session, keychain],
                    \* and initWith, the record of how it was initialized
    now,            \* the wall clock, in hours
    cmd,            \* the command in progress
    resolver,       \* a call of Resolve: [secrets, out], the mapping and the result
    audit,          \* rows of table audit_log, in insertion order
    conns           \* the write transactions that invocations have in progress

storeVars == <<projects, environments, secrets, history, nextId, audit>>
vaultVars == <<vault, now, cmd, resolver, conns>>

(***************************************************************************)
(* Bounds of the model and input sets.                                     *)
(***************************************************************************)
MaxProjects == 1
MaxEnvs == 1
MaxHistory == 3
MaxTreeEnvs == 3
MaxTreeWrites == 3
MaxChainEnvs == 11
MaxChainWrites == 1

\* secret keys "AB", "B" as byte codes
Keys == { <<65, 66>>, <<66>> }
\* (ciphertext, nonce) pairs handed to the store
Blob1 == [value |-> "c1", nonce |-> "n1"]
Blob2 == [value |-> "c2", nonce |-> "n2"]
Blobs == { Blob1, Blob2 }
\* where a transaction is made to fail (an I/O or constraint error)
FailPoints == { "none", "live", "history", "commit" }

MaxTime == 9
RefKeys == { <<"A">>, <<"B">>, <<"C">> }
\* what values are made of: the three tokens, a dollar, and a name in braces
\* without its dollar
RefPieces ==
    { <<"$", "{", "A", "}">>, <<"$", "{", "B", "}">>, <<"$", "{", "C", "}">>,
      <<"$">>, <<"{", "B", "}">> }
RefValues == RefPieces \cup { p \o q : p \in RefPieces, q \in RefPieces }
\* the orders in which a set can be gone through
Orders(S) ==
    { o \in [1..Cardinality(S) -> S] : \A i, j \in DOMAIN o : i # j => o[i] # o[j] }
CmdEnvs == { 1, 2 }
MaxCmdWrites == 2
MaxCmdTime == 12
Values == { <<"v">> }
\* values written in SpecGet: plain text, a reference to B, a reference to AB
GetValues == { <<"$">>, <<"$", "{", "B", "}">>, <<"$", "{", "A", "B", "}">> }
MaxGetWrites == 2
MaxAudit == 1
MaxForestEnvs == 3
MaxCascadeWrites == 3
MaxOverrideWrites == 3
MaxLassoEnvs == 11
MaxSmallEnvs == 3
\* rows handed to LogAudit
AuditLogs ==
    { [Action |-> "read", ProjectID |-> 1, EnvironmentID |-> 1, SecretKey |-> <<66>>,
       Success |-> ok] : ok \in BOOLEAN }
CmdNames == { "get", "list", "history", "export", "run" }
Passwords == { "p1", "p2" }
Salts == { "s1" }
MaxVaultWrites == 1
Nonces == { "n1" }

(***************************************************************************)
(* Values fixed by the program.                                            *)
(***************************************************************************)
MaxAncestorHops == 10
maxDepth == 10
ChangeTypeCreate == "create"
ChangeTypeUpdate == "update"
ChangeTypeDelete == "delete"
ErrNil == "nil"
ErrNotFound == "not found"
ErrCircularInheritance == "circular inheritance detected"
KeyLength == 32
ErrInvalidKeyLength == "invalid key length: must be 32 bytes"
ErrDecryptionFailed == "decryption failed: wrong key or corrupted data"
KeyCheckValue == "coffer-key-check-v1"
SessionDuration == 8
\* the step of the clock where commands run: half a session
CmdTick == SessionDuration \div 2
ErrNotInitialized == "vault not initialized: run 'coffer init' first"
ErrAlreadyInitialized == "vault already initialized"
ErrLocked == "vault is locked: run 'coffer unlock' first"
ErrInvalidPassword == "invalid password"
ErrSessionExpired == "session expired: run 'coffer unlock' again"
ErrKeychainNotAvailable == "keychain not available on this system"
ErrKeychainNotEnabled == "keychain not enabled: use 'coffer keychain enable' first"
ErrGetVaultMeta == "failed to get vault metadata"
ErrGetKeyFromKeychain == "failed to get key from keychain"
ErrKeychainKeyInvalid == "keychain key is invalid"
ErrKeychainKeyInvalidDecryption ==
    "keychain key is invalid: decryption failed: wrong key or corrupted data"
ErrKeychainKeyInvalidLength ==
    "keychain key is invalid: invalid key length: must be 32 bytes"

(***************************************************************************)
(* Helpers.                                                                *)
(***************************************************************************)
RECURSIVE LexLess(_, _)
\* Go's string < (bytewise), also SQLite's ORDER BY under BINARY collation
LexLess(a, b) ==
    IF b = <<>> THEN FALSE
    ELSE IF a = <<>> THEN TRUE
    ELSE IF a[1] < b[1] THEN TRUE
    ELSE IF a[1] > b[1] THEN FALSE
    ELSE LexLess(Tail(a), Tail(b))

RECURSIVE SetToSeq(_)
\* the elements of a set in some order (Go's map iteration order)
SetToSeq(S) ==
    IF S = {} THEN <<>>
    ELSE LET x == CHOOSE y \in S : TRUE IN <<x>> \o SetToSeq(S \ {x})

EnvIds(envs) == { e.id : e \in envs }

\* SELECT ... FROM environments WHERE id = ?
GetEnvironment(envs, id) ==
    LET m == { e \in envs : e.id = id }
    IN  IF m = {} THEN <<>> ELSE << CHOOSE e \in m : TRUE >>

\* SELECT ... FROM secrets WHERE environment_id = ? AND key = ?
GetSecret(secs, envID, key) ==
    LET m == { s \in secs : s.env = envID /\ s.key = key }
    IN  IF m = {} THEN <<>> ELSE << CHOOSE s \in m : TRUE >>

\* SELECT ... FROM secrets WHERE environment_id = ? ORDER BY key
ListSecrets(secs, envID) ==
    SortSeq(SetToSeq({ s \in secs : s.env = envID }),
            LAMBDA x, y : LexLess(x.key, y.key))

(***************************************************************************)
(* Reference resolution (internal/resolver).  A string is the sequence of  *)
(* its characters; a key of the mapping is the string of its name.         *)
(***************************************************************************)
\* [A-Z] and [A-Z0-9_], as far as the alphabet of the inputs goes
UpperChars == { "A", "B", "C" }

NameChars == UpperChars \cup { "0", "_" }

RECURSIVE NameEnd(_, _)
\* the first position from j on that does not hold a character of a name
NameEnd(s, j) ==
    IF j <= Len(s) /\ s[j] \in NameChars THEN NameEnd(s, j + 1) ELSE j

\* refPattern matched at position i of s: <<[from, to, name]>>, or <<>>
MatchAt(s, i) ==
    IF /\ i + 3 <= Len(s)
       /\ s[i] = "$"
       /\ s[i + 1] = "{"
       /\ s[i + 2] \in UpperChars
    THEN LET e == NameEnd(s, i + 3)
         IN  IF e <= Len(s) /\ s[e] = "}"
             THEN <<[from |-> i, to |-> e, name |-> SubSeq(s, i + 2, e - 1)]>>
             ELSE <<>>
    ELSE <<>>

RECURSIVE FindAllFrom(_, _)
\* refPattern.FindAllStringSubmatch(s, -1): leftmost matches that do not overlap
FindAllFrom(s, i) ==
    IF i > Len(s) THEN <<>>
    ELSE LET m == MatchAt(s, i)
         IN  IF m = <<>> THEN FindAllFrom(s, i + 1)
             ELSE m \o FindAllFrom(s, m[1].to + 1)

FindAllStringSubmatch(s) == FindAllFrom(s, 1)

RECURSIVE IndexFrom(_, _, _)
\* strings.Index: where old first occurs in s from i on, 0 if nowhere
IndexFrom(s, old, i) ==
    IF i + Len(old) - 1 > Len(s) THEN 0
    ELSE IF SubSeq(s, i, i + Len(old) - 1) = old THEN i
    ELSE IndexFrom(s, old, i + 1)

\* strings.Replace(s, old, new, 1)
ReplaceFirst(s, old, new) ==
    LET i == IndexFrom(s, old, 1)
    IN  IF i = 0 THEN s
        ELSE SubSeq(s, 1, i - 1) \o new \o SubSeq(s, i + Len(old), Len(s))

ErrCircularReference(key, path) ==
    [kind |-> "ErrCircularReference", Key |-> key, Path |-> path, Reference |-> <<>>]

\* ErrUnresolvedReference with its two fields taken for each other
ErrUnresolvedReferenceSwapped(key, reference) ==
    [kind |-> "ErrUnresolvedReference", Key |-> reference, Path |-> <<>>, Reference |-> key]

ErrUnresolvedReference(key, reference) ==
    [kind |-> "ErrUnresolvedReference", Key |-> key, Path |-> <<>>, Reference |-> reference]

NoErr == [kind |-> ErrNil, Key |-> <<>>, Path |-> <<>>, Reference |-> <<>>]

InPath(path, key) == \E i \in DOMAIN path : path[i] = key

RECURSIVE resolveValue(_, _, _, _)
RECURSIVE resolveMatches(_, _, _, _, _, _, _)
\* the loop of resolveValue over matches, from match m on
resolveMatches(key, secs, newPath, depth, matches, m, result) ==
    IF m > Len(matches) THEN [err |-> NoErr, value |-> result]
    ELSE LET refKey == matches[m].name
             fullMatch == <<"$", "{">> \o refKey \o <<"}">>
         IN  IF refKey \notin DOMAIN secs
             THEN [err |-> ErrUnresolvedReference(key, refKey), value |-> <<>>]
             ELSE LET r == resolveValue(refKey, secs, newPath, depth + 1)
                  IN  IF r.err # NoErr THEN [err |-> r.err, value |-> <<>>]
                      ELSE resolveMatches(key, secs, newPath, depth, matches, m + 1,
                                          ReplaceFirst(result, fullMatch, r.value))

\* resolveValue that returns an empty value, and no error, for a key that
\* is on its own path
resolveValueStopsAtCycle(key, secs, path, depth) ==
    IF depth > maxDepth \/ InPath(path, key)
    THEN [err |-> NoErr, value |-> <<>>]
    ELSE IF key \notin DOMAIN secs
    THEN [err |-> ErrUnresolvedReference(path[Len(path)], key), value |-> <<>>]
    ELSE LET value == secs[key]
             matches == FindAllStringSubmatch(value)
         IN  IF Len(matches) = 0 THEN [err |-> NoErr, value |-> value]
             ELSE resolveMatches(key, secs, Append(path, key), depth, matches, 1, value)

\* resolveValue that gives up one level sooner
resolveValueGivesUpAtBound(key, secs, path, depth) ==
    IF depth >= maxDepth
    THEN [err |-> ErrCircularReference(key, Append(path, key)), value |-> <<>>]
    ELSE IF InPath(path, key)
    THEN [err |-> ErrCircularReference(key, Append(path, key)), value |-> <<>>]
    ELSE IF key \notin DOMAIN secs
    THEN [err |-> ErrUnresolvedReference(path[Len(path)], key), value |-> <<>>]
    ELSE LET value == secs[key]
             matches == FindAllStringSubmatch(value)
         IN  IF Len(matches) = 0 THEN [err |-> NoErr, value |-> value]
             ELSE resolveMatches(key, secs, Append(path, key), depth, matches, 1, value)

resolveValue(key, secs, path, depth) ==
    IF depth > maxDepth
    THEN [err |-> ErrCircularReference(key, Append(path, key)), value |-> <<>>]
    ELSE IF InPath(path, key)
    THEN [err |-> ErrCircularReference(key, Append(path, key)), value |-> <<>>]
    ELSE IF key \notin DOMAIN secs
    THEN [err |-> ErrUnresolvedReference(path[Len(path)], key), value |-> <<>>]
    ELSE LET value == secs[key]
             matches == FindAllStringSubmatch(value)
         IN  IF Len(matches) = 0 THEN [err |-> NoErr, value |-> value]
             ELSE resolveMatches(key, secs, Append(path, key), depth, matches, 1, value)

RECURSIVE ResolveLoop(_, _, _, _)
\* Resolve's range over the map, taken in the order given
ResolveLoop(secs, order, i, resolved) ==
    IF i > Len(order) THEN [err |-> NoErr, resolved |-> resolved]
    ELSE LET r == resolveValue(order[i], secs, <<>>, 0)
         IN  IF r.err # NoErr THEN [err |-> r.err, resolved |-> <<>>]
             ELSE ResolveLoop(secs, order, i + 1, resolved @@ (order[i] :> r.value))

Resolve(secs, order) == ResolveLoop(secs, order, 1, <<>>)

(***************************************************************************)
(* Environment inheritance.                                                *)
(***************************************************************************)
RECURSIVE AncestorsLoopFailsAtBound(_, _, _, _, _, _)
\* a walk that reports the bound as an error
AncestorsLoopFailsAtBound(envs, envID, i, currentID, visited, ancestors) ==
    IF i >= MaxAncestorHops THEN [err |-> ErrCircularInheritance, list |-> <<>>]
    ELSE
      LET row == GetEnvironment(envs, currentID)
      IN  IF row = <<>> THEN [err |-> ErrNil, list |-> ancestors]
          ELSE
            LET e == row[1]
                isAncestor == currentID # envID
            IN  IF isAncestor /\ e.id \in visited
                THEN [err |-> ErrCircularInheritance, list |-> <<>>]
                ELSE
                  LET visited2 == IF isAncestor THEN visited \cup {e.id} ELSE visited
                      ancestors2 == IF isAncestor THEN Append(ancestors, e) ELSE ancestors
                  IN  IF e.parent = <<>>
                      THEN [err |-> ErrNil, list |-> ancestors2]
                      ELSE AncestorsLoopFailsAtBound(envs, envID, i + 1, e.parent[1],
                                                     visited2, ancestors2)

RECURSIVE AncestorsLoop(_, _, _, _, _, _)
AncestorsLoop(envs, envID, i, currentID, visited, ancestors) ==
    IF i >= MaxAncestorHops THEN [err |-> ErrNil, list |-> ancestors]
    ELSE
      LET row == GetEnvironment(envs, currentID)
      IN  IF row = <<>> THEN [err |-> ErrNil, list |-> ancestors]
          ELSE
            LET e == row[1]
                isAncestor == currentID # envID
            IN  IF isAncestor /\ e.id \in visited
                THEN [err |-> ErrCircularInheritance, list |-> <<>>]
                ELSE
                  LET visited2 == IF isAncestor THEN visited \cup {e.id} ELSE visited
                      ancestors2 == IF isAncestor THEN Append(ancestors, e) ELSE ancestors
                  IN  IF e.parent = <<>>
                      THEN [err |-> ErrNil, list |-> ancestors2]
                      ELSE AncestorsLoop(envs, envID, i + 1, e.parent[1],
                                         visited2, ancestors2)

GetEnvironmentAncestors(envs, envID) ==
    AncestorsLoop(envs, envID, 0, envID, {}, <<>>)

MergedSecret(sec, sourceID, isInherited) ==
    [secret |-> sec, sourceEnv |-> sourceID, inherited |-> isInherited]

RECURSIVE FirstDefinerFromRoot(_, _, _, _)
\* a loop over the ancestors that keeps the last definer it meets
FirstDefinerFromRoot(secs, ancestors, i, key) ==
    IF i > Len(ancestors) THEN [err |-> ErrNotFound, res |-> <<>>]
    ELSE LET sec == GetSecret(secs, ancestors[i].id, key)
             rest == FirstDefinerFromRoot(secs, ancestors, i + 1, key)
         IN  IF rest.err = ErrNil THEN rest
             ELSE IF sec # <<>>
             THEN [err |-> ErrNil,
                   res |-> << MergedSecret(sec[1], ancestors[i].id, TRUE) >>]
             ELSE rest

RECURSIVE FirstDefiner(_, _, _, _)
\* for _, ancestor := range ancestors { GetSecret(ancestor.ID, key) ... }
FirstDefiner(secs, ancestors, i, key) ==
    IF i > Len(ancestors) THEN [err |-> ErrNotFound, res |-> <<>>]
    ELSE LET sec == GetSecret(secs, ancestors[i].id, key)
         IN  IF sec # <<>>
             THEN [err |-> ErrNil,
                   res |-> << MergedSecret(sec[1], ancestors[i].id, TRUE) >>]
             ELSE FirstDefiner(secs, ancestors, i + 1, key)

GetSecretWithInheritance(envs, secs, envID, key) ==
    IF GetEnvironment(envs, envID) = <<>> THEN [err |-> ErrNotFound, res |-> <<>>]
    ELSE
      LET sec == GetSecret(secs, envID, key)
      IN  IF sec # <<>>
          THEN [err |-> ErrNil, res |-> << MergedSecret(sec[1], envID, FALSE) >>]
          ELSE LET anc == GetEnvironmentAncestors(envs, envID)
               IN  IF anc.err # ErrNil THEN [err |-> anc.err, res |-> <<>>]
                   ELSE FirstDefiner(secs, anc.list, 1, key)

RECURSIVE PutAllKeepsFirst(_, _, _, _, _)
\* a fold in which an entry already in the map is not overwritten
PutAllKeepsFirst(secretMap, rows, j, sourceID, isInherited) ==
    IF j > Len(rows) THEN secretMap
    ELSE PutAllKeepsFirst(
             secretMap @@ (rows[j].key :> MergedSecret(rows[j], sourceID, isInherited)),
             rows, j + 1, sourceID, isInherited)

RECURSIVE PutAll(_, _, _, _, _)
\* for _, sec := range secrets { secretMap[sec.Key] = MergedSecret{...} }
PutAll(secretMap, rows, j, sourceID, isInherited) ==
    IF j > Len(rows) THEN secretMap
    ELSE PutAll((rows[j].key :> MergedSecret(rows[j], sourceID, isInherited)) @@ secretMap,
                rows, j + 1, sourceID, isInherited)

RECURSIVE FoldChain(_, _, _, _, _)
\* for i := len(chain) - 1; i >= 0; i-- { ... }
FoldChain(secs, envID, chain, i, secretMap) ==
    IF i < 1 THEN secretMap
    ELSE FoldChain(secs, envID, chain, i - 1,
                   PutAll(secretMap, ListSecrets(secs, chain[i].id), 1,
                          chain[i].id, chain[i].id # envID))

ListSecretsWithInheritance(envs, secs, envID) ==
    LET env == GetEnvironment(envs, envID)
    IN  IF env = <<>> THEN [err |-> ErrNotFound, res |-> <<>>]
        ELSE
          LET anc == GetEnvironmentAncestors(envs, envID)
          IN  IF anc.err # ErrNil THEN [err |-> anc.err, res |-> <<>>]
              ELSE
                LET chain == env \o anc.list
                    secretMap == FoldChain(secs, envID, chain, Len(chain), <<>>)
                    result == SetToSeq({ secretMap[k] : k \in DOMAIN secretMap })
                IN  [err |-> ErrNil,
                     res |-> SortSeq(result,
                                     LAMBDA x, y : LexLess(x.secret.key, y.secret.key))]

(***************************************************************************)
(* Versioned secret store.  A transaction works on a copy of the tables    *)
(* (db = [secrets, history]); Commit publishes the copy, the deferred      *)
(* Rollback of a transaction that returned early discards it.              *)
(***************************************************************************)
\* statements run outside the transaction: what was written before the
\* failure stays
RollbackKeepsWrites(committed, working) == working

\* defer tx.Rollback(): nothing the transaction wrote survives
Rollback(committed, working) == committed

\* a write that forgets to advance the version
NewVersionStuck(currentVersion) == currentVersion

\* newVersion := currentVersion + 1
NewVersion(currentVersion) == currentVersion + 1

SecretRow(envID, key, blob, version) ==
    [env |-> envID, key |-> key, value |-> blob.value, nonce |-> blob.nonce,
     version |-> version]

HistoryRow(envID, key, value, nonce, version, changeType) ==
    [env |-> envID, key |-> key, value |-> value, nonce |-> nonce,
     version |-> version, change |-> changeType]

\* INSERT OR REPLACE: a Create that takes the place of the live row
CreateSecretTxReplaces(envs, db, envID, key, blob, failAt) ==
    LET insertOk == envID \in EnvIds(envs) /\ failAt # "live"
        db1 == [db EXCEPT !.secrets =
                   { s \in @ : ~(s.env = envID /\ s.key = key) }
                      \cup { SecretRow(envID, key, blob, 1) }]
        db2 == [db1 EXCEPT !.history =
                   Append(@, HistoryRow(envID, key, blob.value, blob.nonce, 1,
                                        ChangeTypeCreate))]
    IN  IF ~insertOk
        THEN [db |-> Rollback(db, db), err |-> "failed to create secret"]
        ELSE IF failAt = "history"
        THEN [db |-> Rollback(db, db1), err |-> "failed to record history"]
        ELSE IF failAt = "commit"
        THEN [db |-> Rollback(db, db2), err |-> "failed to commit"]
        ELSE [db |-> db2, err |-> ErrNil]

CreateSecretTx(envs, db, envID, key, blob, failAt) ==
    LET \* INSERT INTO secrets: foreign key on environments, UNIQUE(environment_id, key)
        insertOk == /\ envID \in EnvIds(envs)
                    /\ GetSecret(db.secrets, envID, key) = <<>>
                    /\ failAt # "live"
        db1 == [db EXCEPT !.secrets = @ \cup { SecretRow(envID, key, blob, 1) }]
        db2 == [db1 EXCEPT !.history =
                   Append(@, HistoryRow(envID, key, blob.value, blob.nonce, 1,
                                        ChangeTypeCreate))]
    IN  IF ~insertOk
        THEN [db |-> Rollback(db, db), err |-> "failed to create secret"]
        ELSE IF failAt = "history"
        THEN [db |-> Rollback(db, db1), err |-> "failed to record history"]
        ELSE IF failAt = "commit"
        THEN [db |-> Rollback(db, db2), err |-> "failed to commit"]
        ELSE [db |-> db2, err |-> ErrNil]

\* an Update whose history row carries the ciphertext it replaced
UpdateSecretTxRecordsPrevious(db, envID, key, blob, failAt) ==
    LET cur == GetSecret(db.secrets, envID, key)
    IN  IF cur = <<>> THEN [db |-> Rollback(db, db), err |-> ErrNotFound]
        ELSE
          LET newVersion == NewVersion(cur[1].version)
              db1 == [db EXCEPT !.secrets =
                         (@ \ { cur[1] }) \cup { SecretRow(envID, key, blob, newVersion) }]
              db2 == [db1 EXCEPT !.history =
                         Append(@, HistoryRow(envID, key, cur[1].value, cur[1].nonce,
                                              newVersion, ChangeTypeUpdate))]
          IN  IF failAt = "live"
              THEN [db |-> Rollback(db, db), err |-> "failed to update secret"]
              ELSE IF failAt = "history"
              THEN [db |-> Rollback(db, db1), err |-> "failed to record history"]
              ELSE IF failAt = "commit"
              THEN [db |-> Rollback(db, db2), err |-> "failed to commit"]
              ELSE [db |-> db2, err |-> ErrNil]

UpdateSecretTx(db, envID, key, blob, failAt) ==
    LET cur == GetSecret(db.secrets, envID, key)
    IN  IF cur = <<>> THEN [db |-> Rollback(db, db), err |-> ErrNotFound]
        ELSE
          LET newVersion == NewVersion(cur[1].version)
              db1 == [db EXCEPT !.secrets =
                         (@ \ { cur[1] }) \cup { SecretRow(envID, key, blob, newVersion) }]
              db2 == [db1 EXCEPT !.history =
                         Append(@, HistoryRow(envID, key, blob.value, blob.nonce,
                                              newVersion, ChangeTypeUpdate))]
          IN  IF failAt = "live"
              THEN [db |-> Rollback(db, db), err |-> "failed to update secret"]
              ELSE IF failAt = "history"
              THEN [db |-> Rollback(db, db1), err |-> "failed to record history"]
              ELSE IF failAt = "commit"
              THEN [db |-> Rollback(db, db2), err |-> "failed to commit"]
              ELSE [db |-> db2, err |-> ErrNil]

DeleteSecretTx(db, envID, key, failAt) ==
    LET cur == GetSecret(db.secrets, envID, key)
    IN  IF cur = <<>> THEN [db |-> Rollback(db, db), err |-> ErrNotFound]
        ELSE
          LET db1 == [db EXCEPT !.secrets = @ \ { cur[1] }]
              db2 == [db1 EXCEPT !.history =
                         Append(@, HistoryRow(envID, key, cur[1].value, cur[1].nonce,
                                              cur[1].version + 1, ChangeTypeDelete))]
          IN  IF failAt = "live"
              THEN [db |-> Rollback(db, db), err |-> "failed to delete secret"]
              ELSE IF failAt = "history"
              THEN [db |-> Rollback(db, db1), err |-> "failed to record deletion history"]
              ELSE IF failAt = "commit"
              THEN [db |-> Rollback(db, db2), err |-> "failed to commit"]
              ELSE [db |-> db2, err |-> ErrNil]

\* SELECT ... FROM secret_history WHERE environment_id = ? AND key = ?
\* (in insertion order; GetSecretHistory orders it by version)
HistoryOf(hist, envID, key) ==
    SelectSeq(hist, LAMBDA h : h.env = envID /\ h.key = key)

(***************************************************************************)
(* Actions of the store.                                                   *)
(***************************************************************************)
DB == [secrets |-> secrets, history |-> history]

Ret(op, envID, key, err, res) ==
    [op |-> op, env |-> envID, key |-> key, err |-> err, res |-> res]

\* a write went through since the last query: its result is out of date
RetNone == Ret("none", 0, <<>>, ErrNil, <<>>)

InitStore ==
    /\ audit = <<>>
    /\ projects = {}
    /\ environments = {}
    /\ secrets = {}
    /\ history = <<>>
    /\ nextId = [project |-> 1, env |-> 1]

CreateProject ==
    /\ projects' = projects \cup { nextId.project }
    /\ nextId' = [nextId EXCEPT !.project = @ + 1]
    /\ ret' = RetNone
    /\ UNCHANGED <<vaultVars, audit>>
    /\ UNCHANGED <<environments, secrets, history>>

\* nameFree: no environment of the project has the name (UNIQUE(project_id, name))
CreateEnvironment(projectID, nameFree) ==
    /\ IF projectID \in projects /\ nameFree
       THEN /\ environments' = environments \cup
                  { [id |-> nextId.env, project |-> projectID, parent |-> <<>>] }
            /\ nextId' = [nextId EXCEPT !.env = @ + 1]
       ELSE UNCHANGED <<environments, nextId>>
    /\ ret' = RetNone
    /\ UNCHANGED <<vaultVars, audit>>
    /\ UNCHANGED <<projects, secrets, history>>

\* a table whose parent link is checked against the table with the new row
\* already in it
CreateEnvironmentWithParentOfItself(projectID, nameFree, parentID) ==
    /\ IF projectID \in projects /\ nameFree
          /\ parentID \in EnvIds(environments) \cup {nextId.env}
       THEN /\ environments' = environments \cup
                  { [id |-> nextId.env, project |-> projectID, parent |-> <<parentID>>] }
            /\ nextId' = [nextId EXCEPT !.env = @ + 1]
       ELSE UNCHANGED <<environments, nextId>>
    /\ ret' = RetNone
    /\ UNCHANGED <<vaultVars, audit>>
    /\ UNCHANGED <<projects, secrets, history>>

CreateEnvironmentWithParent(projectID, nameFree, parentID) ==
    /\ IF projectID \in projects /\ nameFree /\ parentID \in EnvIds(environments)
       THEN /\ environments' = environments \cup
                  { [id |-> nextId.env, project |-> projectID, parent |-> <<parentID>>] }
            /\ nextId' = [nextId EXCEPT !.env = @ + 1]
       ELSE UNCHANGED <<environments, nextId>>
    /\ ret' = RetNone
    /\ UNCHANGED <<vaultVars, audit>>
    /\ UNCHANGED <<projects, secrets, history>>

\* secrets.environment_id ... REFERENCES environments(id) ON DELETE CASCADE
SecretsCascade(secs, ids) == { s \in secs : s.env \notin ids }

\* a ledger whose rows go with their environment
HistoryCascadeDeletes(hist, ids) == SelectSeq(hist, LAMBDA h : h.env \notin ids)

\* secret_history.environment_id is plain TEXT NOT NULL: no foreign key, no
\* cascade
HistoryCascade(hist, ids) == hist

\* a table whose parent links restrict nothing
RestrictedNever(envs, ids) == FALSE

\* parent_id ... REFERENCES environments(id) ON DELETE RESTRICT: a row that is
\* some row's parent cannot be deleted, directly or by a cascade
Restricted(envs, ids) == \E c \in envs : c.parent # <<>> /\ c.parent[1] \in ids

\* what DELETE FROM environments WHERE id = ? answers
DeleteEnvironmentResult(envs, id) ==
    IF id \notin EnvIds(envs) THEN ErrNotFound
    ELSE IF Restricted(envs, {id}) THEN "failed to delete environment"
    ELSE ErrNil

DeleteEnvironment(id) ==
    /\ IF DeleteEnvironmentResult(environments, id) # ErrNil
       THEN UNCHANGED <<environments, secrets, history>>
       ELSE /\ environments' = { e \in environments : e.id # id }
            /\ secrets' = SecretsCascade(secrets, {id})
            /\ history' = HistoryCascade(history, {id})
    /\ ret' = RetNone
    /\ UNCHANGED <<vaultVars, audit>>
    /\ UNCHANGED <<projects, nextId>>

\* DELETE FROM projects WHERE id = ?; environments.project_id ... ON DELETE
\* CASCADE.  The result carries the ids of the project's environments as
\* they were before the call.
DeleteProject(id) ==
    LET ids == { e.id : e \in { x \in environments : x.project = id } }
    IN  /\ IF id \notin projects
           THEN /\ ret' = Ret("DeleteProject", id, <<>>, ErrNotFound, <<ids>>)
                /\ UNCHANGED <<projects, environments, secrets, history>>
           ELSE IF Restricted(environments, ids)
           THEN /\ ret' = Ret("DeleteProject", id, <<>>, "failed to delete project", <<ids>>)
                /\ UNCHANGED <<projects, environments, secrets, history>>
           ELSE /\ projects' = projects \ {id}
                /\ environments' = { e \in environments : e.id \notin ids }
                /\ secrets' = SecretsCascade(secrets, ids)
                /\ history' = HistoryCascade(history, ids)
                /\ ret' = Ret("DeleteProject", id, <<>>, ErrNil, <<ids>>)
        /\ UNCHANGED <<vaultVars, audit>>
        /\ UNCHANGED nextId

CreateSecret(envID, key, blob, failAt) ==
    /\ LET r == CreateSecretTx(environments, DB, envID, key, blob, failAt)
       IN  /\ secrets' = r.db.secrets
           /\ history' = r.db.history
    /\ ret' = RetNone
    /\ UNCHANGED <<vaultVars, audit>>
    /\ UNCHANGED <<projects, environments, nextId>>

UpdateSecret(envID, key, blob, failAt) ==
    /\ LET r == UpdateSecretTx(DB, envID, key, blob, failAt)
       IN  /\ secrets' = r.db.secrets
           /\ history' = r.db.history
    /\ ret' = RetNone
    /\ UNCHANGED <<vaultVars, audit>>
    /\ UNCHANGED <<projects, environments, nextId>>

DeleteSecret(envID, key, failAt) ==
    /\ LET r == DeleteSecretTx(DB, envID, key, failAt)
       IN  /\ secrets' = r.db.secrets
           /\ history' = r.db.history
    /\ ret' = RetNone
    /\ UNCHANGED <<vaultVars, audit>>
    /\ UNCHANGED <<projects, environments, nextId>>

GetEnvironmentAncestorsCall(envID) ==
    /\ LET r == GetEnvironmentAncestors(environments, envID)
       IN  ret' = Ret("GetEnvironmentAncestors", envID, <<>>, r.err, r.list)
    /\ UNCHANGED <<storeVars, vaultVars>>

\* INSERT INTO audit_log (...) VALUES (...)
LogAudit(auditLog, log) == Append(auditLog, log)

LogAuditCall(log) ==
    /\ audit' = LogAudit(audit, log)
    /\ ret' = RetNone
    /\ UNCHANGED <<projects, environments, secrets, history, nextId, vaultVars>>

GetSecretWithInheritanceCall(envID, key) ==
    /\ LET r == GetSecretWithInheritance(environments, secrets, envID, key)
       IN  ret' = Ret("GetSecretWithInheritance", envID, key, r.err, r.res)
    /\ UNCHANGED <<storeVars, vaultVars>>

ListSecretsWithInheritanceCall(envID) ==
    /\ LET r == ListSecretsWithInheritance(environments, secrets, envID)
       IN  ret' = Ret("ListSecretsWithInheritance", envID, <<>>, r.err, r.res)
    /\ UNCHANGED <<storeVars, vaultVars>>

(***************************************************************************)
(* Cryptography, symbolically.  A derived key is the pair it was derived   *)
(* from (Argon2id is taken to be collision free), a ciphertext is a sealed *)
(* box that opens only with the key, nonce and associated data it was      *)
(* sealed with (AES-256-GCM is taken to be unforgeable).  Every nonce      *)
(* comes from GenerateNonce and has NonceLength bytes.                     *)
(***************************************************************************)
DeriveKey(password, salt) ==
    [material |-> <<password, salt>>, len |-> KeyLength]

NoAAD == <<>>

Encrypt(key, plaintext, aad, nonce) ==
    IF key.len # KeyLength
    THEN [err |-> ErrInvalidKeyLength, ciphertext |-> <<>>, nonce |-> <<>>]
    ELSE [err |-> ErrNil,
          ciphertext |-> <<[sealedWith |-> key, nonce |-> nonce,
                            aad |-> aad, plaintext |-> plaintext]>>,
          nonce |-> <<nonce>>]

Decrypt(key, ciphertext, nonce, aad) ==
    IF key.len # KeyLength
    THEN [err |-> ErrInvalidKeyLength, plaintext |-> <<>>]
    ELSE IF \/ ciphertext.sealedWith # key
            \/ ciphertext.nonce # nonce
            \/ ciphertext.aad # aad
    THEN [err |-> ErrDecryptionFailed, plaintext |-> <<>>]
    ELSE [err |-> ErrNil, plaintext |-> <<ciphertext.plaintext>>]

\* the keychain holds text: the key in base64, or whatever was put there
Base64Encode(key) == [text |-> "base64", bytes |-> key]

Base64Decode(entry) ==
    IF entry.text = "base64"
    THEN [err |-> ErrNil, bytes |-> <<entry.bytes>>]
    ELSE [err |-> "illegal base64 data", bytes |-> <<>>]

StoreKeyInKeychain(v, key) ==
    IF key.len # KeyLength
    THEN [v |-> v, err |-> ErrInvalidKeyLength]
    ELSE [v |-> [v EXCEPT !.keychain = <<Base64Encode(key)>>], err |-> ErrNil]

GetKeyFromKeychain(v) ==
    IF v.keychain = <<>>
    THEN [err |-> "no key found in keychain", key |-> <<>>]
    ELSE LET dec == Base64Decode(v.keychain[1])
         IN  IF dec.err # ErrNil
             THEN [err |-> "failed to decode key from keychain", key |-> <<>>]
             ELSE IF dec.bytes[1].len # KeyLength
             THEN [err |-> "invalid key length in keychain", key |-> <<>>]
             ELSE [err |-> ErrNil, key |-> dec.bytes]

DeleteKeyFromKeychain(v) == [v EXCEPT !.keychain = <<>>]

(***************************************************************************)
(* The vault.  v = [dbExists, meta, session, keychain]: whether the        *)
(* database file exists, the vault_meta row, the session file and the      *)
(* keychain entry; t is what time.Now() returns during the call.           *)
(***************************************************************************)
IsInitialized(v) == v.dbExists

Marshal(session) == [key |-> session.Key, expires_at |-> session.ExpiresAt]

Unmarshal(data) == [Key |-> data.key, ExpiresAt |-> data.expires_at]

\* createSession that does not add SessionDuration
createSessionExpiringNow(v, key, t) ==
    LET session == [Key |-> key, ExpiresAt |-> t]
    IN  [v EXCEPT !.session = <<Marshal(session)>>]

createSession(v, key, t) ==
    LET session == [Key |-> key, ExpiresAt |-> t + SessionDuration]
    IN  [v EXCEPT !.session = <<Marshal(session)>>]

loadSession(v) ==
    IF v.session = <<>>
    THEN [err |-> ErrLocked, session |-> <<>>]
    ELSE [err |-> ErrNil, session |-> <<Unmarshal(v.session[1])>>]

\* Lock that leaves the session file where it is
LockKeepsSession(v) == v

Lock(v) == [v EXCEPT !.session = <<>>]

\* IsUnlocked that still answers true at the instant of expiry
IsUnlockedAtExpiry(v, t) ==
    LET l == loadSession(v)
    IN  IF l.err # ErrNil THEN FALSE ELSE t <= l.session[1].ExpiresAt

IsUnlocked(v, t) ==
    LET l == loadSession(v)
    IN  IF l.err # ErrNil THEN FALSE ELSE t < l.session[1].ExpiresAt

\* GetKey that leaves the expired session where it is
GetKeyKeepsExpired(v, t) ==
    LET l == loadSession(v)
    IN  IF l.err # ErrNil
        THEN [v |-> v, err |-> ErrLocked, key |-> <<>>]
        ELSE IF t > l.session[1].ExpiresAt
        THEN [v |-> v, err |-> ErrSessionExpired, key |-> <<>>]
        ELSE [v |-> v, err |-> ErrNil, key |-> <<l.session[1].Key>>]

\* GetKey without the comparison of the clock with ExpiresAt
GetKeyIgnoringExpiry(v, t) ==
    LET l == loadSession(v)
    IN  IF l.err # ErrNil
        THEN [v |-> v, err |-> ErrLocked, key |-> <<>>]
        ELSE [v |-> v, err |-> ErrNil, key |-> <<l.session[1].Key>>]

GetKey(v, t) ==
    LET l == loadSession(v)
    IN  IF l.err # ErrNil
        THEN [v |-> v, err |-> ErrLocked, key |-> <<>>]
        ELSE IF t > l.session[1].ExpiresAt
        THEN [v |-> Lock(v), err |-> ErrSessionExpired, key |-> <<>>]
        ELSE [v |-> v, err |-> ErrNil, key |-> <<l.session[1].Key>>]

\* a key check that any key of the right length passes
KeyChecksAnyKey(meta, key) == key.len = KeyLength

\* the key check both Unlock and VerifyPassword make
KeyChecks(meta, key) ==
    LET d == Decrypt(key, meta.KeyCheck, meta.KeyCheckNonce, NoAAD)
    IN  d.err = ErrNil /\ d.plaintext[1] = KeyCheckValue

\* Initialize without the IsInitialized check
InitializeOverwrites(v, password, salt, nonce, t) ==
    LET key == DeriveKey(password, salt)
        enc == Encrypt(key, KeyCheckValue, NoAAD, nonce)
        meta == [Salt |-> salt, KeyCheck |-> enc.ciphertext[1],
                 KeyCheckNonce |-> enc.nonce[1], KeychainEnabled |-> FALSE]
        opened == [v EXCEPT !.dbExists = TRUE, !.meta = <<meta>>]
    IN  [v |-> createSession(opened, key, t), err |-> ErrNil]

Initialize(v, password, salt, nonce, t) ==
    IF IsInitialized(v)
    THEN [v |-> v, err |-> ErrAlreadyInitialized]
    ELSE LET key == DeriveKey(password, salt)
             enc == Encrypt(key, KeyCheckValue, NoAAD, nonce)
             meta == [Salt |-> salt, KeyCheck |-> enc.ciphertext[1],
                      KeyCheckNonce |-> enc.nonce[1], KeychainEnabled |-> FALSE]
             opened == [v EXCEPT !.dbExists = TRUE, !.meta = <<meta>>]
         IN  [v |-> createSession(opened, key, t), err |-> ErrNil]

\* Unlock that locks the vault when the password is wrong
UnlockLocksOnFailure(v, password, t) ==
    IF ~IsInitialized(v)
    THEN [v |-> v, err |-> ErrNotInitialized]
    ELSE IF v.meta = <<>>
    THEN [v |-> v, err |-> ErrGetVaultMeta]
    ELSE LET key == DeriveKey(password, v.meta[1].Salt)
         IN  IF ~KeyChecks(v.meta[1], key)
             THEN [v |-> Lock(v), err |-> ErrInvalidPassword]
             ELSE [v |-> createSession(v, key, t), err |-> ErrNil]

Unlock(v, password, t) ==
    IF ~IsInitialized(v)
    THEN [v |-> v, err |-> ErrNotInitialized]
    ELSE IF v.meta = <<>>
    THEN [v |-> v, err |-> ErrGetVaultMeta]
    ELSE LET key == DeriveKey(password, v.meta[1].Salt)
         IN  IF ~KeyChecks(v.meta[1], key)
             THEN [v |-> v, err |-> ErrInvalidPassword]
             ELSE [v |-> createSession(v, key, t), err |-> ErrNil]

\* VerifyPassword that only checks that there is a vault to check against
VerifyPasswordAcceptsAny(v, password) ==
    IF ~IsInitialized(v)
    THEN ErrNotInitialized
    ELSE IF v.meta = <<>>
    THEN ErrGetVaultMeta
    ELSE ErrNil

VerifyPassword(v, password) ==
    IF ~IsInitialized(v)
    THEN ErrNotInitialized
    ELSE IF v.meta = <<>>
    THEN ErrGetVaultMeta
    ELSE LET key == DeriveKey(password, v.meta[1].Salt)
         IN  IF ~KeyChecks(v.meta[1], key) THEN ErrInvalidPassword ELSE ErrNil

\* UPDATE vault_meta SET keychain_enabled = ? WHERE id = 1
SetKeychainEnabled(v, enabled) ==
    IF v.meta = <<>>
    THEN v
    ELSE [v EXCEPT !.meta = <<[v.meta[1] EXCEPT !.KeychainEnabled = enabled]>>]

EnableKeychain(v, password, available) ==
    IF ~IsInitialized(v)
    THEN [v |-> v, err |-> ErrNotInitialized]
    ELSE IF ~available
    THEN [v |-> v, err |-> ErrKeychainNotAvailable]
    ELSE IF VerifyPassword(v, password) # ErrNil
    THEN [v |-> v, err |-> VerifyPassword(v, password)]
    ELSE LET key == DeriveKey(password, v.meta[1].Salt)
             stored == StoreKeyInKeychain(v, key)
         IN  IF stored.err # ErrNil
             THEN [v |-> v, err |-> "failed to store key in keychain"]
             ELSE [v |-> SetKeychainEnabled(stored.v, TRUE), err |-> ErrNil]

DisableKeychain(v) ==
    IF ~IsInitialized(v)
    THEN [v |-> v, err |-> ErrNotInitialized]
    ELSE [v |-> SetKeychainEnabled(DeleteKeyFromKeychain(v), FALSE), err |-> ErrNil]

\* fmt.Errorf("keychain key is invalid: %w", err)
WrapKeychainKeyInvalid(err) ==
    IF err = ErrDecryptionFailed THEN ErrKeychainKeyInvalidDecryption
    ELSE ErrKeychainKeyInvalidLength

\* what UnlockWithKeychain reports for a key that fails the key check: the
\* error of Decrypt, wrapped, or the bare message when the plaintext differs
KeychainKeyError(meta, key) ==
    LET d == Decrypt(key, meta.KeyCheck, meta.KeyCheckNonce, NoAAD)
    IN  IF d.err # ErrNil THEN WrapKeychainKeyInvalid(d.err) ELSE ErrKeychainKeyInvalid

\* UnlockWithKeychain that trusts what the keychain holds
UnlockWithKeychainUnchecked(v, t) ==
    IF ~IsInitialized(v)
    THEN [v |-> v, err |-> ErrNotInitialized]
    ELSE IF v.meta = <<>>
    THEN [v |-> v, err |-> ErrGetVaultMeta]
    ELSE IF ~v.meta[1].KeychainEnabled
    THEN [v |-> v, err |-> ErrKeychainNotEnabled]
    ELSE LET got == GetKeyFromKeychain(v)
         IN  IF got.err # ErrNil
             THEN [v |-> v, err |-> ErrGetKeyFromKeychain]
             ELSE [v |-> createSession(v, got.key[1], t), err |-> ErrNil]

UnlockWithKeychain(v, t) ==
    IF ~IsInitialized(v)
    THEN [v |-> v, err |-> ErrNotInitialized]
    ELSE IF v.meta = <<>>
    THEN [v |-> v, err |-> ErrGetVaultMeta]
    ELSE IF ~v.meta[1].KeychainEnabled
    THEN [v |-> v, err |-> ErrKeychainNotEnabled]
    ELSE LET got == GetKeyFromKeychain(v)
         IN  IF got.err # ErrNil
             THEN [v |-> v, err |-> ErrGetKeyFromKeychain]
             ELSE IF ~KeyChecks(v.meta[1], got.key[1])
             THEN [v |-> v, err |-> KeychainKeyError(v.meta[1], got.key[1])]
             ELSE [v |-> createSession(v, got.key[1], t), err |-> ErrNil]

\* store.NewSQLiteStore creates the database file if there is none
GetStore(v) == [v EXCEPT !.dbExists = TRUE]

\* cmd unlock: flag is the --password flag (<<>> when not given), prompt the
\* --prompt flag, typed what the user types when asked
runUnlock(v, flag, prompt, typed, t) ==
    IF ~IsInitialized(v)
    THEN [v |-> v, err |-> ErrNotInitialized, out |-> <<>>]
    ELSE IF IsUnlocked(v, t)
    THEN [v |-> v, err |-> ErrNil, out |-> <<"Vault is already unlocked">>]
    ELSE IF flag # <<>>
    THEN LET u == Unlock(v, flag[1], t)
         IN  [v |-> u.v, err |-> u.err,
              out |-> IF u.err = ErrNil THEN <<"Vault unlocked">> ELSE <<>>]
    ELSE LET enabled == IsInitialized(v) /\ v.meta # <<>> /\ v.meta[1].KeychainEnabled
             k == UnlockWithKeychain(v, t)
             u == Unlock(v, typed, t)
         IN  IF ~prompt /\ enabled /\ k.err = ErrNil
             THEN [v |-> k.v, err |-> ErrNil, out |-> <<"Vault unlocked (via keychain)">>]
             ELSE [v |-> u.v, err |-> u.err,
                   out |-> IF u.err = ErrNil THEN <<"Vault unlocked">> ELSE <<>>]

(***************************************************************************)
(* Actions of the vault.                                                   *)
(***************************************************************************)
\* the invocations that may write at the same time, none with a
\* transaction open
Invocations == { 1, 2 }

ConnIdle == [pc |-> "idle"]

NoConns == [w \in Invocations |-> ConnIdle]

InitVault ==
    /\ vault = [dbExists |-> FALSE, meta |-> <<>>, session |-> <<>>,
                keychain |-> <<>>, initWith |-> <<>>]
    /\ now = 0
    /\ conns = NoConns

\* initWith remembers the password and the key of the Initialize that succeeded
InitializeCall(password, salt, nonce) ==
    /\ LET r == Initialize(vault, password, salt, nonce, now)
           first == [password |-> password, key |-> DeriveKey(password, salt)]
       IN  /\ vault' = IF r.err = ErrNil
                       THEN [r.v EXCEPT !.initWith = <<first>>]
                       ELSE r.v
           /\ ret' = Ret("Initialize", 0, <<>>, r.err, <<password>>)
    /\ UNCHANGED <<storeVars, now, cmd, resolver, conns>>

UnlockCall(password) ==
    /\ LET r == Unlock(vault, password, now)
       IN  /\ vault' = r.v
           /\ ret' = Ret("Unlock", 0, <<>>, r.err, <<password>>)
    /\ UNCHANGED <<storeVars, now, cmd, resolver, conns>>

LockCall ==
    /\ vault' = Lock(vault)
    /\ ret' = Ret("Lock", 0, <<>>, ErrNil, <<>>)
    /\ UNCHANGED <<storeVars, now, cmd, resolver, conns>>

IsUnlockedCall ==
    /\ ret' = Ret("IsUnlocked", 0, <<>>, ErrNil, <<IsUnlocked(vault, now)>>)
    /\ UNCHANGED <<storeVars, vaultVars>>

GetKeyCall ==
    /\ LET r == GetKey(vault, now)
       IN  /\ vault' = r.v
           /\ ret' = Ret("GetKey", 0, <<>>, r.err, r.key)
    /\ UNCHANGED <<storeVars, now, cmd, resolver, conns>>

VerifyPasswordCall(password) ==
    /\ ret' = Ret("VerifyPassword", 0, <<>>, VerifyPassword(vault, password), <<password>>)
    /\ UNCHANGED <<storeVars, vaultVars>>

EnableKeychainCall(password, available) ==
    /\ LET r == EnableKeychain(vault, password, available)
       IN  /\ vault' = r.v
           /\ ret' = Ret("EnableKeychain", 0, <<>>, r.err, <<>>)
    /\ UNCHANGED <<storeVars, now, cmd, resolver, conns>>

DisableKeychainCall ==
    /\ LET r == DisableKeychain(vault)
       IN  /\ vault' = r.v
           /\ ret' = Ret("DisableKeychain", 0, <<>>, r.err, <<>>)
    /\ UNCHANGED <<storeVars, now, cmd, resolver, conns>>

UnlockWithKeychainCall ==
    /\ LET r == UnlockWithKeychain(vault, now)
       IN  /\ vault' = r.v
           /\ ret' = Ret("UnlockWithKeychain", 0, <<>>, r.err, <<>>)
    /\ UNCHANGED <<storeVars, now, cmd, resolver, conns>>

GetStoreCall ==
    /\ vault' = GetStore(vault)
    /\ ret' = Ret("GetStore", 0, <<>>, ErrNil, <<>>)
    /\ UNCHANGED <<storeVars, now, cmd, resolver, conns>>

runUnlockCall(flag, prompt, typed) ==
    /\ LET r == runUnlock(vault, flag, prompt, typed, now)
       IN  /\ vault' = r.v
           /\ ret' = Ret("unlock", 0, <<>>, r.err, r.out)
    /\ UNCHANGED <<storeVars, now, cmd, resolver, conns>>

\* another program of the same user writes the keychain entry of the service
KeychainSet(entry) ==
    /\ vault' = [vault EXCEPT !.keychain = <<entry>>]
    /\ ret' = RetNone
    /\ UNCHANGED <<storeVars, now, cmd, resolver, conns>>

\* d hours pass
Tick(d) ==
    /\ now' = now + d
    /\ ret' = RetNone
    /\ UNCHANGED <<storeVars, vault, cmd, resolver, conns>>

(***************************************************************************)
(* Commands.  A command that decrypts runs in three steps, between which   *)
(* the clock advances and other processes lock or unlock the vault: it     *)
(* begins (getUnlockedVault and the reads that precede GetKey), it fetches *)
(* the key (GetKey), it decrypts and writes its output.                    *)
(* cmd = [name, pc, show, env, key, rows, encKey, out, err] and two        *)
(* observations: lockedAtBegin, whether there was no session or an expired *)
(* one when the command began, and gate, whether there was a session that  *)
(* had not expired at the moment the key was fetched.                      *)
(***************************************************************************)
Expired(v, t) == v.session # <<>> /\ t > v.session[1].expires_at

getUnlockedVault(v, t) ==
    IF ~IsInitialized(v)
    THEN [v |-> v, err |-> ErrNotInitialized]
    ELSE IF ~IsUnlocked(v, t)
    THEN [v |-> v, err |-> ErrLocked]
    ELSE [v |-> GetStore(v), err |-> ErrNil]

\* active: the project the config table names as active, if any
getActiveProject(projs, active) ==
    IF active = <<>>
    THEN "no active project"
    ELSE IF active[1] \notin projs
    THEN "active project not found"
    ELSE ErrNil

\* the environment of the active project the command names
GetEnvironmentByName(envs, active, envID) ==
    IF \E e \in envs : e.id = envID /\ e.project = active[1]
    THEN ErrNil
    ELSE ErrNotFound

\* the lookups every command makes after getUnlockedVault
Lookup(v, t, active, envID) ==
    LET g == getUnlockedVault(v, t)
    IN  IF g.err # ErrNil THEN g
        ELSE IF getActiveProject(projects, active) # ErrNil
        THEN [v |-> g.v, err |-> getActiveProject(projects, active)]
        ELSE [v |-> g.v, err |-> GetEnvironmentByName(environments, active, envID)]

CmdIdle ==
    [name |-> "none", pc |-> "idle", show |-> FALSE, env |-> 0, key |-> <<>>,
     rows |-> <<>>, encKey |-> <<>>, out |-> {}, err |-> ErrNil,
     lockedAtBegin |-> FALSE, gate |-> FALSE]

CmdStart(name, show, envID, key) ==
    [CmdIdle EXCEPT !.name = name, !.show = show, !.env = envID, !.key = key,
                    !.lockedAtBegin = vault.session = <<>> \/ Expired(vault, now)]

CmdFail(c, err) == [c EXCEPT !.pc = "done", !.err = err]

CmdFetch(c, rows) == [c EXCEPT !.pc = "fetch", !.rows = rows]

CmdDone(c, out) == [c EXCEPT !.pc = "done", !.out = out]

\* what one row decrypts to, under the name of its key
DecryptRow(encKey, row) ==
    Decrypt(encKey, row.value, row.nonce, row.key)

Plain(encKey, rows) ==
    { [key |-> rows[i].key, value |-> DecryptRow(encKey, rows[i]).plaintext[1]] :
        i \in { j \in DOMAIN rows : DecryptRow(encKey, rows[j]).err = ErrNil } }

runGetBegin(c) ==
    LET r == GetSecretWithInheritance(environments, secrets, c.env, c.key)
    IN  IF r.err # ErrNil THEN CmdFail(c, r.err) ELSE CmdFetch(c, <<r.res[1].secret>>)

runListBegin(c) ==
    LET r == ListSecretsWithInheritance(environments, secrets, c.env)
        rows == [i \in DOMAIN r.res |-> r.res[i].secret]
    IN  IF r.err # ErrNil THEN CmdFail(c, r.err)
        ELSE IF Len(rows) = 0 \/ ~c.show THEN CmdDone(c, {})
        ELSE CmdFetch(c, rows)

\* the default --limit, 10, is more than the rows a key collects here
runHistoryBegin(c) ==
    LET rows == HistoryOf(history, c.env, c.key)
    IN  IF Len(rows) = 0 \/ ~c.show THEN CmdDone(c, {}) ELSE CmdFetch(c, rows)

CmdBegin(name, show, active, envID, key) ==
    /\ cmd.pc \in { "idle", "done" }
    /\ LET c == CmdStart(name, show, envID, key)
           l == Lookup(vault, now, active, envID)
       IN  /\ vault' = l.v
           /\ cmd' = IF l.err # ErrNil THEN CmdFail(c, l.err)
                     ELSE IF name = "get" THEN runGetBegin(c)
                     ELSE IF name = "list" THEN runListBegin(c)
                     ELSE IF name = "history" THEN runHistoryBegin(c)
                     ELSE CmdFetch(c, <<>>)
    /\ ret' = RetNone
    /\ UNCHANGED <<storeVars, now, resolver, conns>>

CmdGetKey ==
    /\ cmd.pc = "fetch"
    /\ LET r == GetKey(vault, now)
       IN  /\ vault' = r.v
           /\ cmd' = IF r.err # ErrNil
                     THEN CmdFail(cmd, r.err)
                     ELSE [cmd EXCEPT !.pc = "decrypt", !.encKey = r.key,
                                      !.gate = vault.session # <<>> /\ ~Expired(vault, now)]
    /\ ret' = RetNone
    /\ UNCHANGED <<storeVars, now, resolver, conns>>

\* get fails when its row does not decrypt; list and history print
\* "[decryption error]" for such a row; history shows no value for a delete
runGetOutput(c) ==
    LET d == DecryptRow(c.encKey[1], c.rows[1])
    IN  IF d.err # ErrNil THEN CmdFail(c, d.err)
        ELSE CmdDone(c, Plain(c.encKey[1], c.rows))

runListOutput(c) == CmdDone(c, Plain(c.encKey[1], c.rows))

runHistoryOutput(c) ==
    CmdDone(c, Plain(c.encKey[1],
                     SelectSeq(c.rows, LAMBDA h : h.change # ChangeTypeDelete)))

\* a key, kept as its bytes in the tables, as the string it is in a map of
\* names
Chr == (65 :> "A") @@ (66 :> "B")

KeyName(key) == [i \in DOMAIN key |-> Chr[key[i]]]

\* decryptedSecrets[secret.Key] = string(value), for rows that all decrypt
DecryptedSecrets(encKey, rows) ==
    [n \in { KeyName(rows[i].key) : i \in DOMAIN rows } |->
        LET i == CHOOSE j \in DOMAIN rows : KeyName(rows[j].key) = n
        IN  DecryptRow(encKey, rows[i]).plaintext[1]]

\* the secrets export and run list once they have the key
OutputRows(c) ==
    LET r == ListSecretsWithInheritance(environments, secrets, c.env)
    IN  [err |-> r.err, rows |-> [i \in DOMAIN r.res |-> r.res[i].secret]]

\* export and run list the secrets after they have the key, and give up at
\* the first row that does not decrypt; run resolves the references, export
\* does with --resolve (c.show); order is the order in which Resolve goes
\* through the map
\* export and run that expand each value in the mapping merged for the
\* environment the value comes from
runExportOutputResolvesAtSource(c, order) ==
    LET full == ListSecretsWithInheritance(environments, secrets, c.env)
        rows == [i \in DOMAIN full.res |-> full.res[i].secret]
        seen(i) == LET l == ListSecretsWithInheritance(environments, secrets,
                                                       full.res[i].sourceEnv)
                   IN  [j \in DOMAIN l.res |-> l.res[j].secret]
        decrypts(rs) == \A j \in DOMAIN rs : DecryptRow(c.encKey[1], rs[j]).err = ErrNil
        at(i) == LET m == DecryptedSecrets(c.encKey[1], seen(i))
                 IN  Resolve(m, CHOOSE o \in Orders(DOMAIN m) : TRUE)
    IN  IF full.err # ErrNil THEN CmdFail(c, full.err)
        ELSE IF ~decrypts(rows) \/ \E i \in DOMAIN rows : ~decrypts(seen(i))
        THEN CmdFail(c, ErrDecryptionFailed)
        ELSE IF c.name = "export" /\ ~c.show
        THEN CmdDone(c, Plain(c.encKey[1], rows))
        ELSE IF \E i \in DOMAIN rows : at(i).err # NoErr
        THEN CmdFail(c, "failed to resolve references")
        ELSE CmdDone(c, { [key |-> rows[i].key,
                           value |-> at(i).resolved[KeyName(rows[i].key)]] :
                             i \in DOMAIN rows })

runExportOutput(c, order) ==
    LET r == OutputRows(c)
        rows == r.rows
    IN  IF r.err # ErrNil THEN CmdFail(c, r.err)
        ELSE IF \E i \in DOMAIN rows : DecryptRow(c.encKey[1], rows[i]).err # ErrNil
        THEN CmdFail(c, ErrDecryptionFailed)
        ELSE IF c.name = "export" /\ ~c.show
        THEN CmdDone(c, Plain(c.encKey[1], rows))
        ELSE LET res == Resolve(DecryptedSecrets(c.encKey[1], rows), order)
             IN  IF res.err # NoErr
                 THEN CmdFail(c, "failed to resolve references")
                 ELSE CmdDone(c, { [key |-> rows[i].key,
                                    value |-> res.resolved[KeyName(rows[i].key)]] :
                                      i \in DOMAIN rows })

\* the names of the map that export and run hand to Resolve
OutputNames(c) ==
    IF c.name \in { "export", "run" } /\ OutputRows(c).err = ErrNil
    THEN { KeyName(OutputRows(c).rows[i].key) : i \in DOMAIN OutputRows(c).rows }
    ELSE {}

CmdOutput ==
    /\ cmd.pc = "decrypt"
    /\ \E order \in Orders(OutputNames(cmd)) :
          cmd' = IF cmd.name = "get" THEN runGetOutput(cmd)
                 ELSE IF cmd.name = "list" THEN runListOutput(cmd)
                 ELSE IF cmd.name = "history" THEN runHistoryOutput(cmd)
                 ELSE runExportOutput(cmd, order)
    /\ ret' = RetNone
    /\ UNCHANGED <<storeVars, vault, now, resolver, conns>>

ErrInvalidKeyName ==
    "invalid key name: must contain only uppercase letters, numbers, and underscores"

\* key is a sequence of character codes: 'A'..'Z' 65..90, '0'..'9' 48..57,
\* '_' 95; i is the byte offset of the character, 0 for the first
isValidKeyName(key) ==
    /\ Len(key) # 0
    /\ \A j \in DOMAIN key :
          LET c == key[j]
              i == j - 1
          IN  \/ c >= 65 /\ c <= 90
              \/ c >= 48 /\ c <= 57 /\ i > 0
              \/ c = 95

\* cmd set, in one step
runSet(active, envID, key, value, nonce) ==
    /\ LET l == Lookup(vault, now, active, envID)
           k == GetKey(l.v, now)
           enc == Encrypt(k.key[1], value, key, nonce)
           blob == [value |-> enc.ciphertext[1], nonce |-> enc.nonce[1]]
           w == IF GetSecret(secrets, envID, key) = <<>>
                THEN CreateSecretTx(environments, DB, envID, key, blob, "none")
                ELSE UpdateSecretTx(DB, envID, key, blob, "none")
       IN  IF l.err # ErrNil
           THEN /\ vault' = l.v
                /\ ret' = Ret("set", envID, key, l.err, <<>>)
                /\ UNCHANGED <<secrets, history>>
           ELSE IF ~isValidKeyName(key)
           THEN /\ vault' = l.v
                /\ ret' = Ret("set", envID, key, ErrInvalidKeyName, <<>>)
                /\ UNCHANGED <<secrets, history>>
           ELSE IF k.err # ErrNil
           THEN /\ vault' = k.v
                /\ ret' = Ret("set", envID, key, k.err, <<>>)
                /\ UNCHANGED <<secrets, history>>
           ELSE /\ vault' = k.v
                /\ secrets' = w.db.secrets
                /\ history' = w.db.history
                /\ ret' = Ret("set", envID, key, w.err, <<>>)
    /\ UNCHANGED <<projects, environments, nextId, audit, now, cmd, resolver, conns>>

\* SELECT ... FROM secret_history WHERE environment_id = ? AND key = ? AND
\* version = ?: the places in the ledger of the rows that match; QueryRow
\* takes one of them, the query has no ORDER BY
GetSecretVersion(hist, envID, key, version) ==
    { i \in DOMAIN hist :
         hist[i].env = envID /\ hist[i].key = key /\ hist[i].version = version }

ErrVersionNotFound == "version not found"
ErrWasDeletion == "cannot restore version: it was a deletion"

\* restore that writes back the row of a deletion too
restoreEntryOfAnyKind(envs, db, envID, key, h) ==
    LET blob == [value |-> h.value, nonce |-> h.nonce]
    IN  IF GetSecret(db.secrets, envID, key) = <<>>
        THEN CreateSecretTx(envs, db, envID, key, blob, "none")
        ELSE UpdateSecretTx(db, envID, key, blob, "none")

\* what runRestore does with the history entry h it has read
restoreEntry(envs, db, envID, key, h) ==
    LET blob == [value |-> h.value, nonce |-> h.nonce]
    IN  IF h.change = ChangeTypeDelete
        THEN [db |-> db, err |-> ErrWasDeletion]
        ELSE IF GetSecret(db.secrets, envID, key) = <<>>
        THEN CreateSecretTx(envs, db, envID, key, blob, "none")
        ELSE UpdateSecretTx(db, envID, key, blob, "none")

\* cmd restore KEY --version, in one step; ret.res is the version asked for
\* and, when GetSecretVersion found one, the history entry it returned
runRestore(active, envID, key, version) ==
    /\ LET l == Lookup(vault, now, active, envID)
           found == GetSecretVersion(history, envID, key, version)
       IN  /\ vault' = l.v
           /\ IF l.err # ErrNil
              THEN /\ ret' = Ret("restore", envID, key, l.err, <<version>>)
                   /\ UNCHANGED <<secrets, history>>
              ELSE IF found = {}
              THEN /\ ret' = Ret("restore", envID, key, ErrVersionNotFound, <<version>>)
                   /\ UNCHANGED <<secrets, history>>
              ELSE \E i \in found :
                      LET r == restoreEntry(environments, DB, envID, key, history[i])
                      IN  /\ secrets' = r.db.secrets
                          /\ history' = r.db.history
                          /\ ret' = Ret("restore", envID, key, r.err,
                                        <<version, history[i]>>)
    /\ UNCHANGED <<projects, environments, nextId, audit, now, cmd, resolver, conns>>

\* SELECT ... FROM environments WHERE parent_id = ?
GetEnvironmentChildren(envs, id) == { c \in envs : c.parent = <<id>> }

\* cmd env delete, in one step; yes: --force, or "y" at the prompt
runEnvDelete(active, envID, yes) ==
    /\ LET l == Lookup(vault, now, active, envID)
           d == DeleteEnvironmentResult(environments, envID)
           err == IF l.err # ErrNil THEN l.err
                  ELSE IF GetEnvironmentChildren(environments, envID) # {}
                  THEN "has child environments"
                  ELSE IF ~yes THEN ErrNil
                  ELSE d
           deleted == l.err = ErrNil /\ err = ErrNil /\ yes
       IN  /\ vault' = l.v
           /\ ret' = Ret("env delete", envID, <<>>, err, <<deleted>>)
           /\ IF deleted
              THEN /\ environments' = { e \in environments : e.id # envID }
                   /\ secrets' = SecretsCascade(secrets, {envID})
                   /\ history' = HistoryCascade(history, {envID})
              ELSE UNCHANGED <<environments, secrets, history>>
    /\ UNCHANGED <<projects, nextId, audit, now, cmd, resolver, conns>>

\* what the keychain entry can be made to hold from outside: the key of any
\* vault, a key of the wrong length, text that is not base64
KeychainEntries ==
    { Base64Encode(DeriveKey(p, s)) : p \in Passwords, s \in Salts }
        \cup { Base64Encode([material |-> <<"short">>, len |-> 16]),
               [text |-> "plain", bytes |-> DeriveKey("p1", "s1")] }

\* no mapping given to Resolve
(***************************************************************************)
(* Invocations that write at the same time.  Each has its own connection   *)
(* to the database file (journal_mode = WAL, busy_timeout = 5000).  A      *)
(* transaction is followed statement by statement: conns[w] is             *)
(* [pc, op, env, key, blob, cur, snap, work]: the statement reached, the   *)
(* write, the row and the database its SELECT saw, and the database as the *)
(* transaction has written it so far, which Commit publishes.  The         *)
(* statement that first writes takes the file's write lock; it fails with  *)
(* "database is locked" when another transaction has committed since this  *)
(* one's SELECT, or when the lock is not released within the busy timeout. *)
(***************************************************************************)
ErrBusy == "database is locked"

InTx(c) == c.pc \in { "live", "history" }

WriteLockFree(cs, w) == \A o \in Invocations \ { w } : ~InTx(cs[o])

\* reads that see what a transaction in progress has written so far
VisibleUncommitted(db, cs) ==
    IF \E w \in Invocations : InTx(cs[w])
    THEN cs[CHOOSE w \in Invocations : InTx(cs[w])].work[1]
    ELSE db

\* what a statement outside the transactions in progress reads: what has
\* been committed
Visible(db, cs) == db

Finish(w, op, envID, key, err) ==
    /\ conns' = [conns EXCEPT ![w] = ConnIdle]
    /\ ret' = Ret(op, envID, key, err, <<w>>)

\* cmd set from its GetSecret on: the check that chooses between
\* CreateSecret and UpdateSecret, then tx.Begin
SetBegin(w, envID, key, blob) ==
    /\ conns[w].pc = "idle"
    /\ conns' = [conns EXCEPT ![w] =
          [pc |-> "begin",
           op |-> IF GetSecret(Visible(DB, conns).secrets, envID, key) = <<>>
                  THEN "create" ELSE "update",
           env |-> envID, key |-> key, blob |-> blob,
           cur |-> <<>>, snap |-> <<>>, work |-> <<>>]]
    /\ ret' = RetNone
    /\ UNCHANGED <<storeVars, vault, now, cmd, resolver>>

\* DeleteSecret: tx.Begin
DeleteBegin(w, envID, key) ==
    /\ conns[w].pc = "idle"
    /\ conns' = [conns EXCEPT ![w] =
          [pc |-> "begin", op |-> "delete", env |-> envID, key |-> key,
           blob |-> <<>>, cur |-> <<>>, snap |-> <<>>, work |-> <<>>]]
    /\ ret' = RetNone
    /\ UNCHANGED <<storeVars, vault, now, cmd, resolver>>

\* UpdateSecret, DeleteSecret: SELECT ... FROM secrets inside the transaction
TxSelect(w) ==
    LET c == conns[w]
        seen == Visible(DB, conns)
        cur == GetSecret(seen.secrets, c.env, c.key)
    IN  /\ c.pc = "begin"
        /\ c.op \in { "update", "delete" }
        /\ IF cur = <<>>
           THEN Finish(w, c.op, c.env, c.key, ErrNotFound)
           ELSE /\ conns' = [conns EXCEPT ![w] =
                                [c EXCEPT !.pc = "selected", !.cur = cur,
                                          !.snap = <<seen>>]]
                /\ ret' = RetNone
        /\ UNCHANGED <<storeVars, vault, now, cmd, resolver>>

\* the tables after the statement that writes the live row
LiveStatement(c, db) ==
    IF c.op = "create"
    THEN [db EXCEPT !.secrets = @ \cup { SecretRow(c.env, c.key, c.blob, 1) }]
    ELSE IF c.op = "update"
    THEN [db EXCEPT !.secrets =
            { r \in @ : ~(r.env = c.env /\ r.key = c.key) }
               \cup IF GetSecret(db.secrets, c.env, c.key) = <<>> THEN {}
                    ELSE { SecretRow(c.env, c.key, c.blob,
                                     NewVersion(c.cur[1].version)) }]
    ELSE [db EXCEPT !.secrets = { r \in @ : ~(r.env = c.env /\ r.key = c.key) }]

\* the tables after the INSERT INTO secret_history of the transaction
HistoryStatement(c, db) ==
    [db EXCEPT !.history = Append(@,
        IF c.op = "create"
        THEN HistoryRow(c.env, c.key, c.blob.value, c.blob.nonce, 1, ChangeTypeCreate)
        ELSE IF c.op = "update"
        THEN HistoryRow(c.env, c.key, c.blob.value, c.blob.nonce,
                        NewVersion(c.cur[1].version), ChangeTypeUpdate)
        ELSE HistoryRow(c.env, c.key, c.cur[1].value, c.cur[1].nonce,
                        c.cur[1].version + 1, ChangeTypeDelete))]

\* a transaction that writes whatever has been committed since its SELECT
SnapshotIsCurrentNeverChecked(c, db) == TRUE

\* whether the statement that writes the live row may go ahead: not after a
\* commit that this transaction's SELECT has not seen
SnapshotIsCurrent(c, db) == c.snap = <<>> \/ c.snap[1] = db

\* the INSERT, UPDATE or DELETE of the live row
TxLive(w) ==
    LET c == conns[w]
    IN  /\ c.pc = "selected" \/ (c.pc = "begin" /\ c.op = "create")
        /\ WriteLockFree(conns, w)
        /\ IF ~SnapshotIsCurrent(c, DB)
           THEN Finish(w, c.op, c.env, c.key, ErrBusy)
           ELSE IF /\ c.op = "create"
                   /\ \/ c.env \notin EnvIds(environments)
                      \/ GetSecret(secrets, c.env, c.key) # <<>>
           THEN Finish(w, c.op, c.env, c.key, "failed to create secret")
           ELSE /\ conns' = [conns EXCEPT ![w] =
                                [c EXCEPT !.pc = "live",
                                          !.work = <<LiveStatement(c, DB)>>]]
                /\ ret' = RetNone
        /\ UNCHANGED <<storeVars, vault, now, cmd, resolver>>

\* the write lock is not released within the busy timeout
TxBusy(w) ==
    LET c == conns[w]
    IN  /\ c.pc = "selected" \/ (c.pc = "begin" /\ c.op = "create")
        /\ ~WriteLockFree(conns, w)
        /\ Finish(w, c.op, c.env, c.key, ErrBusy)
        /\ UNCHANGED <<storeVars, vault, now, cmd, resolver>>

\* the INSERT INTO secret_history
TxHistory(w) ==
    LET c == conns[w]
    IN  /\ c.pc = "live"
        /\ conns' = [conns EXCEPT ![w] =
                        [c EXCEPT !.pc = "history",
                                  !.work = <<HistoryStatement(c, c.work[1])>>]]
        /\ ret' = RetNone
        /\ UNCHANGED <<storeVars, vault, now, cmd, resolver>>

\* tx.Commit()
TxCommit(w) ==
    LET c == conns[w]
    IN  /\ c.pc = "history"
        /\ secrets' = c.work[1].secrets
        /\ history' = c.work[1].history
        /\ Finish(w, c.op, c.env, c.key, ErrNil)
        /\ UNCHANGED <<projects, environments, nextId, audit, vault, now, cmd, resolver>>

\* a statement fails or the invocation is killed: the deferred tx.Rollback(),
\* or the recovery of the next connection, discards what was written
TxAbort(w) ==
    LET c == conns[w]
    IN  /\ InTx(c)
        /\ Finish(w, c.op, c.env, c.key, "failed")
        /\ UNCHANGED <<storeVars, vault, now, cmd, resolver>>

\* another invocation reads the live row and the ledger of a key
ReadCall(envID, key) ==
    /\ LET seen == Visible(DB, conns)
       IN  ret' = Ret("read", envID, key, ErrNil,
                      <<GetSecret(seen.secrets, envID, key),
                        HistoryOf(seen.history, envID, key)>>)
    /\ UNCHANGED <<storeVars, vaultVars>>

ResolverIdle == [secrets |-> <<>>, out |-> <<>>]

\* Resolve(secrets), its range over the map going in the order given
ResolveCall(order) ==
    /\ resolver' = [resolver EXCEPT !.out = <<Resolve(resolver.secrets, order)>>]
    /\ ret' = RetNone
    /\ UNCHANGED <<storeVars, vault, now, cmd, conns>>

Init ==
    /\ InitStore
    /\ InitVault
    /\ cmd = CmdIdle
    /\ resolver = ResolverIdle
    /\ ret = RetNone

vars == <<projects, environments, secrets, history, nextId, ret, vault, now, cmd, resolver,
          audit, conns>>

(***************************************************************************)
(* Spec: the versioned store.  Projects, environments and secret writes,   *)
(* every write with every point of failure.                                *)
(***************************************************************************)
Next ==
    \/ nextId.project <= MaxProjects /\ CreateProject
    \/ \E p \in 1..MaxProjects, nameFree \in BOOLEAN :
          nextId.env <= MaxEnvs /\ CreateEnvironment(p, nameFree)
    \/ \E e \in 1..MaxEnvs : DeleteEnvironment(e)
    \/ \E e \in 1..MaxEnvs, k \in Keys, b \in Blobs, f \in FailPoints :
          Len(history) < MaxHistory /\ CreateSecret(e, k, b, f)
    \/ \E e \in 1..MaxEnvs, k \in Keys, b \in Blobs, f \in FailPoints :
          Len(history) < MaxHistory /\ UpdateSecret(e, k, b, f)
    \/ \E e \in 1..MaxEnvs, k \in Keys, f \in FailPoints :
          Len(history) < MaxHistory /\ DeleteSecret(e, k, f)

Spec == Init /\ [][Next]_vars

(***************************************************************************)
(* SpecInherit: a forest of environments, secrets written into it, and the *)
(* two inheritance queries.                                                *)
(***************************************************************************)
NextInherit ==
    \/ nextId.project <= MaxProjects /\ CreateProject
    \/ \E p \in 1..MaxProjects :
          nextId.env <= MaxTreeEnvs /\ CreateEnvironment(p, TRUE)
    \/ \E p \in 1..MaxProjects, parent \in 1..MaxTreeEnvs :
          nextId.env <= MaxTreeEnvs /\ CreateEnvironmentWithParent(p, TRUE, parent)
    \/ \E p \in 1..MaxProjects : DeleteProject(p)
    \/ \E e \in 1..MaxTreeEnvs, k \in Keys :
          Len(history) < MaxTreeWrites /\ CreateSecret(e, k, Blob1, "none")
    \/ \E e \in 1..MaxTreeEnvs, k \in Keys :
          Len(history) < MaxTreeWrites /\ UpdateSecret(e, k, Blob2, "none")
    \/ \E e \in 1..MaxTreeEnvs, k \in Keys :
          Len(history) < MaxTreeWrites /\ DeleteSecret(e, k, "none")
    \/ \E e \in 1..MaxTreeEnvs, k \in Keys : GetSecretWithInheritanceCall(e, k)
    \/ \E e \in 1..MaxTreeEnvs : ListSecretsWithInheritanceCall(e)

SpecInherit == Init /\ [][NextInherit]_vars

(***************************************************************************)
(* SpecCascade: a project with an environment and its child; secrets       *)
(* written with every point of failure; the environments and the project   *)
(* deleted.                                                                *)
(***************************************************************************)
NextCascade ==
    \/ nextId.project = 1 /\ CreateProject
    \/ nextId.env = 1 /\ CreateEnvironment(1, TRUE)
    \/ nextId.env = 2 /\ CreateEnvironmentWithParent(1, TRUE, 1)
    \/ \E e \in CmdEnvs : DeleteEnvironment(e)
    \/ DeleteProject(1)
    \/ \E e \in CmdEnvs, k \in Keys, f \in FailPoints :
          Len(history) < MaxCascadeWrites /\ CreateSecret(e, k, Blob1, f)
    \/ \E e \in CmdEnvs, k \in Keys, f \in FailPoints :
          Len(history) < MaxCascadeWrites /\ UpdateSecret(e, k, Blob2, f)
    \/ \E e \in CmdEnvs, k \in Keys, f \in FailPoints :
          Len(history) < MaxCascadeWrites /\ DeleteSecret(e, k, f)

SpecCascade == Init /\ [][NextCascade]_vars

(***************************************************************************)
(* SpecForest: environments created as roots and as children in two        *)
(* projects, and deleted: by the store's DeleteEnvironment and             *)
(* DeleteProject and by the command env delete on an unlocked vault.       *)
(***************************************************************************)
ForestProjects == { 1, 2 }

NextForest ==
    \/ \E n \in Nonces : InitializeCall("p1", "s1", n)
    \/ nextId.project \in ForestProjects /\ CreateProject
    \/ \E p \in ForestProjects :
          nextId.env <= MaxForestEnvs /\ CreateEnvironment(p, TRUE)
    \/ \E p \in ForestProjects, parent \in 1..MaxForestEnvs :
          nextId.env <= MaxForestEnvs /\ CreateEnvironmentWithParent(p, TRUE, parent)
    \/ \E e \in 1..MaxForestEnvs : DeleteEnvironment(e)
    \/ \E p \in ForestProjects : DeleteProject(p)
    \/ \E p \in ForestProjects, e \in 1..MaxForestEnvs, yes \in BOOLEAN :
          runEnvDelete(<<p>>, e, yes)

SpecForest == Init /\ [][NextForest]_vars

(***************************************************************************)
(* SpecOverride: an environment, its parent and its grandparent, secrets   *)
(* created, updated and deleted in any of them in any order, and the two   *)
(* inheritance queries.                                                    *)
(***************************************************************************)
ChainEnvs == { 1, 2, 3 }

NextOverride ==
    \/ nextId.project = 1 /\ CreateProject
    \/ nextId.env = 1 /\ CreateEnvironment(1, TRUE)
    \/ /\ nextId.env \in ChainEnvs \ {1}
       /\ CreateEnvironmentWithParent(1, TRUE, nextId.env - 1)
    \/ \E e \in ChainEnvs, k \in Keys :
          Len(history) < MaxOverrideWrites /\ CreateSecret(e, k, Blob1, "none")
    \/ \E e \in ChainEnvs, k \in Keys :
          Len(history) < MaxOverrideWrites /\ UpdateSecret(e, k, Blob2, "none")
    \/ \E e \in ChainEnvs, k \in Keys :
          Len(history) < MaxOverrideWrites /\ DeleteSecret(e, k, "none")
    \/ \E e \in ChainEnvs, k \in Keys : GetSecretWithInheritanceCall(e, k)
    \/ \E e \in ChainEnvs : ListSecretsWithInheritanceCall(e)

SpecOverride == Init /\ [][NextOverride]_vars

(***************************************************************************)
(* SpecDeep: one chain of environments, each the child of the one created  *)
(* before it, secrets of one key written into it, and the two inheritance  *)
(* queries.                                                                *)
(***************************************************************************)
NextDeep ==
    \/ nextId.project = 1 /\ CreateProject
    \/ nextId.env = 1 /\ CreateEnvironment(1, TRUE)
    \/ /\ nextId.env > 1
       /\ nextId.env <= MaxChainEnvs
       /\ CreateEnvironmentWithParent(1, TRUE, nextId.env - 1)
    \/ \E e \in 1..MaxChainEnvs :
          Len(history) < MaxChainWrites /\ CreateSecret(e, <<66>>, Blob1, "none")
    \/ \E e \in 1..MaxChainEnvs : GetEnvironmentAncestorsCall(e)
    \/ \E e \in 1..MaxChainEnvs : GetSecretWithInheritanceCall(e, <<66>>)
    \/ \E e \in 1..MaxChainEnvs : ListSecretsWithInheritanceCall(e)

SpecDeep == Init /\ [][NextDeep]_vars

(***************************************************************************)
(* SpecVault: the vault, its session and the keychain, with the clock, and *)
(* a secret set in a project's environment.                                *)
(***************************************************************************)
NextVault ==
    \/ \E p \in Passwords, s \in Salts, n \in Nonces : InitializeCall(p, s, n)
    \/ \E p \in Passwords : UnlockCall(p)
    \/ LockCall
    \/ IsUnlockedCall
    \/ GetKeyCall
    \/ \E p \in Passwords : VerifyPasswordCall(p)
    \/ \E p \in Passwords, available \in BOOLEAN : EnableKeychainCall(p, available)
    \/ DisableKeychainCall
    \/ UnlockWithKeychainCall
    \/ GetStoreCall
    \/ \E flag \in {<<>>} \cup { <<p>> : p \in Passwords },
          prompt \in BOOLEAN, typed \in Passwords :
          runUnlockCall(flag, prompt, typed)
    \/ \E entry \in KeychainEntries : KeychainSet(entry)
    \/ now < MaxTime /\ Tick(1)
    \/ nextId.project = 1 /\ CreateProject
    \/ nextId.env = 1 /\ CreateEnvironment(1, TRUE)
    \/ Len(history) < MaxVaultWrites /\ CreateSecret(1, <<66>>, Blob1, "none")

SpecVault == Init /\ [][NextVault]_vars

(***************************************************************************)
(* SpecVerify: the three ways of checking a password or a key, on a vault  *)
(* database as a file can hold it: the key check sealed with the key of    *)
(* password p1, holding the expected text or another, and a keychain       *)
(* entry.                                                                  *)
(***************************************************************************)
KeyCheckTexts == { KeyCheckValue, "coffer-key-check-v0" }

VerifyMetas ==
    { [Salt |-> "s1",
       KeyCheck |-> Encrypt(DeriveKey("p1", "s1"), text, NoAAD, "n1").ciphertext[1],
       KeyCheckNonce |-> "n1",
       KeychainEnabled |-> enabled] : text \in KeyCheckTexts, enabled \in BOOLEAN }

VerifyVaults ==
    { [dbExists |-> TRUE, meta |-> <<m>>, session |-> <<>>, keychain |-> k,
       initWith |-> <<>>] :
         m \in VerifyMetas, k \in { <<>> } \cup { <<e>> : e \in KeychainEntries } }

InitVerify ==
    /\ InitStore
    /\ vault \in VerifyVaults
    /\ now = 0
    /\ conns = NoConns
    /\ cmd = CmdIdle
    /\ resolver = ResolverIdle
    /\ ret = RetNone

NextVerify ==
    \/ \E p \in Passwords : UnlockCall(p)
    \/ \E p \in Passwords : VerifyPasswordCall(p)
    \/ UnlockWithKeychainCall
    \/ LockCall

SpecVerify == InitVerify /\ [][NextVerify]_vars

(***************************************************************************)
(* SpecCmd: a vault that is initialized, locked and unlocked while the     *)
(* clock advances, a project with a parent and a child environment,        *)
(* secrets set and deleted, and the commands that decrypt.                 *)
(***************************************************************************)
NextCmd ==
    \/ \E n \in Nonces : InitializeCall("p1", "s1", n)
    \/ UnlockCall("p1")
    \/ LockCall
    \/ now < MaxCmdTime /\ Tick(CmdTick)
    \/ nextId.project = 1 /\ CreateProject
    \/ nextId.env = 1 /\ CreateEnvironment(1, TRUE)
    \/ nextId.env = 2 /\ CreateEnvironmentWithParent(1, TRUE, 1)
    \/ \E e \in CmdEnvs, v \in Values, n \in Nonces :
          Len(history) < MaxCmdWrites /\ runSet(<<1>>, e, <<66>>, v, n)
    \/ \E e \in CmdEnvs :
          Len(history) < MaxCmdWrites /\ DeleteSecret(e, <<66>>, "none")
    \/ \E name \in CmdNames, e \in CmdEnvs :
          CmdBegin(name, TRUE, <<1>>, e, <<66>>)
    \/ \E name \in { "list", "history" }, e \in CmdEnvs :
          CmdBegin(name, FALSE, <<1>>, e, <<66>>)
    \/ CmdBegin("get", TRUE, <<>>, 1, <<66>>)
    \/ CmdGetKey
    \/ CmdOutput

SpecCmd == Init /\ [][NextCmd]_vars

(***************************************************************************)
(* SpecGraph: GetEnvironmentAncestors on an environments table as a        *)
(* database file can hold it, whatever wrote it: every parent names a row  *)
(* of the table, and the links may form cycles.                            *)
(***************************************************************************)
EnvRow(i, parent) == [id |-> i, project |-> 1, parent |-> parent]

\* 1 -> 2 -> ... -> n, and n's parent is back: none or one of 1..n
Lasso(n, back) == { EnvRow(i, IF i < n THEN <<i + 1>> ELSE back) : i \in 1..n }

Parents(n) == { <<>> } \cup { <<j>> : j \in 1..n }

Graphs ==
    UNION { { Lasso(n, back) : back \in Parents(n) } : n \in 1..MaxLassoEnvs }
    \cup
    UNION { { { EnvRow(i, f[i]) : i \in 1..n } : f \in [1..n -> Parents(n)] } :
              n \in 1..MaxSmallEnvs }

InitGraph ==
    /\ projects = {1}
    /\ environments \in Graphs
    /\ secrets = {}
    /\ history = <<>>
    /\ audit = <<>>
    /\ nextId = [project |-> 2, env |-> Cardinality(environments) + 1]
    /\ InitVault
    /\ cmd = CmdIdle
    /\ resolver = ResolverIdle
    /\ ret = RetNone

NextGraph == \E e \in EnvIds(environments) : GetEnvironmentAncestorsCall(e)

SpecGraph == InitGraph /\ [][NextGraph]_vars

(***************************************************************************)
(* SpecSet: the set command given names of every shape: empty, a letter,   *)
(* an underscore or a digit first, a lowercase letter, a hyphen.           *)
(***************************************************************************)
MaxSetWrites == 2

\* "", A, _, _A, 1, A1, 1A, a, A_, A-
SetKeys ==
    { <<>>, <<65>>, <<95>>, <<95, 65>>, <<49>>, <<65, 49>>, <<49, 65>>,
      <<97>>, <<65, 95>>, <<65, 45>> }

NextSet ==
    \/ InitializeCall("p1", "s1", "n1")
    \/ LockCall
    \/ nextId.project = 1 /\ CreateProject
    \/ nextId.env = 1 /\ CreateEnvironment(1, TRUE)
    \/ \E k \in SetKeys :
          Len(history) < MaxSetWrites /\ runSet(<<1>>, 1, k, <<"v">>, "n1")

SpecSet == Init /\ [][NextSet]_vars

(***************************************************************************)
(* SpecChain: Resolve on a chain of references K0 -> K1 -> ... -> Kn, each *)
(* value a prefix and a reference to the next key, the last a plain value. *)
(***************************************************************************)
MaxRefChain == 12

\* the names AA, AB, AC, A0, A_, BA, ... in this order
ChainKey(i) ==
    << <<"A", "B", "C">>[(i \div 5) + 1], <<"A", "B", "C", "0", "_">>[(i % 5) + 1] >>

ChainPrefixes == { <<>>, <<"$">>, <<"{", "B", "}">> }

ChainEnds == { <<"v">>, <<"$">>, <<"$", "{">> }

Chain(n, prefix, end) ==
    [k \in { ChainKey(i) : i \in 0..n } |->
        LET i == CHOOSE j \in 0..n : ChainKey(j) = k
        IN  IF i = n THEN end
            ELSE prefix \o <<"$", "{">> \o ChainKey(i + 1) \o <<"}">>]

\* the keys of the chain from Ks on and round, forwards or backwards
ChainOrders(n) ==
    { [i \in 1..(n + 1) |-> ChainKey((s + i - 1) % (n + 1))] : s \in 0..n }
    \cup { [i \in 1..(n + 1) |-> ChainKey((s + n + 1 - i) % (n + 1))] : s \in 0..n }

InitChain ==
    /\ InitStore
    /\ InitVault
    /\ cmd = CmdIdle
    /\ ret = RetNone
    /\ \E n \in 0..MaxRefChain, prefix \in ChainPrefixes, end \in ChainEnds :
          resolver = [secrets |-> Chain(n, prefix, end), out |-> <<>>]

NextChain ==
    \E order \in ChainOrders(Cardinality(DOMAIN resolver.secrets) - 1) :
       ResolveCall(order)

SpecChain == InitChain /\ [][NextChain]_vars

(***************************************************************************)
(* SpecRestore: one key of one environment written, deleted, written again *)
(* and restored to the versions its ledger holds.                          *)
(***************************************************************************)
MaxRestoreWrites == 4

NextRestore ==
    \/ InitializeCall("p1", "s1", "n1")
    \/ LockCall
    \/ nextId.project = 1 /\ CreateProject
    \/ nextId.env = 1 /\ CreateEnvironment(1, TRUE)
    \/ \E b \in Blobs :
          Len(history) < MaxRestoreWrites /\ CreateSecret(1, <<66>>, b, "none")
    \/ \E b \in Blobs :
          Len(history) < MaxRestoreWrites /\ UpdateSecret(1, <<66>>, b, "none")
    \/ Len(history) < MaxRestoreWrites /\ DeleteSecret(1, <<66>>, "none")
    \/ \E v \in 1..MaxRestoreWrites :
          Len(history) < MaxRestoreWrites /\ runRestore(<<1>>, 1, <<66>>, v)

SpecRestore == Init /\ [][NextRestore]_vars

(***************************************************************************)
(* SpecMerged: run and export --resolve in a child environment whose       *)
(* parent defines AB, as plain text or as a reference to B, while parent   *)
(* and child each define B, with a row that the vault's key does not open. *)
(***************************************************************************)
MaxMergedWrites == 3

\* plain text, other plain text, a reference to B
MergedValues == { <<"$">>, <<"v">>, <<"$", "{", "B", "}">> }

\* a row written through the store with a ciphertext of another key
ForeignBlob ==
    [value |-> Encrypt(DeriveKey("p2", "s1"), <<"v">>, <<66>>, "n1").ciphertext[1],
     nonce |-> "n1"]

NextMerged ==
    \/ InitializeCall("p1", "s1", "n1")
    \/ nextId.project = 1 /\ CreateProject
    \/ nextId.env = 1 /\ CreateEnvironment(1, TRUE)
    \/ nextId.env = 2 /\ CreateEnvironmentWithParent(1, TRUE, 1)
    \/ \E v \in { <<"v">>, <<"$", "{", "B", "}">> } :
          /\ cmd.pc \in { "idle", "done" }
          /\ Len(history) < MaxMergedWrites
          /\ runSet(<<1>>, 1, <<65, 66>>, v, "n1")
    \/ \E e \in CmdEnvs, v \in MergedValues :
          /\ cmd.pc \in { "idle", "done" }
          /\ Len(history) < MaxMergedWrites
          /\ runSet(<<1>>, e, <<66>>, v, "n1")
    \/ /\ cmd.pc \in { "idle", "done" }
       /\ Len(history) < MaxMergedWrites
       /\ CreateSecret(1, <<66>>, ForeignBlob, "none")
    \/ \E name \in { "export", "run" } : CmdBegin(name, TRUE, <<1>>, 2, <<>>)
    \/ CmdGetKey
    \/ CmdOutput

SpecMerged == Init /\ [][NextMerged]_vars

(***************************************************************************)
(* SpecTx: two invocations that set and delete one key of one environment  *)
(* at the same time, statement by statement, and a third that reads.       *)
(***************************************************************************)
MaxTxWrites == 3

\* the transactions begun and not yet over
Pending == Cardinality({ w \in Invocations : conns[w].pc # "idle" })

NextTx ==
    \/ nextId.project = 1 /\ CreateProject
    \/ nextId.env = 1 /\ CreateEnvironment(1, TRUE)
    \/ \E w \in Invocations, b \in Blobs :
          /\ nextId.env = 2
          /\ Len(history) + Pending < MaxTxWrites
          /\ SetBegin(w, 1, <<66>>, b)
    \/ \E w \in Invocations :
          /\ nextId.env = 2
          /\ Len(history) + Pending < MaxTxWrites
          /\ DeleteBegin(w, 1, <<66>>)
    \/ \E w \in Invocations : TxSelect(w)
    \/ \E w \in Invocations : TxLive(w)
    \/ \E w \in Invocations : TxBusy(w)
    \/ \E w \in Invocations : TxHistory(w)
    \/ \E w \in Invocations : TxCommit(w)
    \/ \E w \in Invocations : TxAbort(w)
    \/ ReadCall(1, <<66>>)

SpecTx == Init /\ [][NextTx]_vars

(***************************************************************************)
(* SpecGet: values that refer to other keys, set one command at a time in  *)
(* an environment and its child, and read by get, export and run.          *)
(***************************************************************************)
NextGet ==
    \/ \E n \in Nonces : InitializeCall("p1", "s1", n)
    \/ nextId.project = 1 /\ CreateProject
    \/ nextId.env = 1 /\ CreateEnvironment(1, TRUE)
    \/ nextId.env = 2 /\ CreateEnvironmentWithParent(1, TRUE, 1)
    \/ \E e \in CmdEnvs, k \in Keys, v \in GetValues, n \in Nonces :
          /\ cmd.pc \in { "idle", "done" }
          /\ Len(history) < MaxGetWrites
          /\ runSet(<<1>>, e, k, v, n)
    \/ \E name \in { "get", "export", "run" }, k \in Keys :
          CmdBegin(name, TRUE, <<1>>, 2, k)
    \/ CmdBegin("export", FALSE, <<1>>, 2, <<66>>)
    \/ \E log \in AuditLogs : Len(audit) < MaxAudit /\ LogAuditCall(log)
    \/ CmdGetKey
    \/ CmdOutput

SpecGet == Init /\ [][NextGet]_vars

(***************************************************************************)
(* SpecResolve: Resolve applied to every mapping of the keys A, B, C to    *)
(* the values in RefValues, in every order of the range over the map.      *)
(***************************************************************************)
InitResolve ==
    /\ InitStore
    /\ InitVault
    /\ cmd = CmdIdle
    /\ ret = RetNone
    /\ \E K \in SUBSET RefKeys : \E m \in [K -> RefValues] :
          resolver = [secrets |-> m, out |-> <<>>]

NextResolve ==
    \E order \in Orders(DOMAIN resolver.secrets) : ResolveCall(order)

SpecResolve == InitResolve /\ [][NextResolve]_vars

(***************************************************************************)
(* Properties of the versioned store.                                      *)
(***************************************************************************)
AllEnvIds == 1..(nextId.env - 1)

\* index of the last row of kind create in a key's history, 0 if none
LastCreate(H) ==
    LET S == { i \in 1..Len(H) : H[i].change = ChangeTypeCreate }
    IN  IF S = {} THEN 0 ELSE CHOOSE i \in S : \A j \in S : j <= i

\* the rows of a key's history appended since its last Create
Lineage(H) ==
    IF LastCreate(H) = 0 THEN <<>> ELSE SubSeq(H, LastCreate(H), Len(H))

\* rows 1..m of L are create@1, update@2, ..., update@m
CreateThenUpdates(L, m) ==
    /\ m >= 1
    /\ Len(L) >= m
    /\ \A i \in 1..m :
          /\ L[i].version = i
          /\ L[i].change = IF i = 1 THEN ChangeTypeCreate ELSE ChangeTypeUpdate

\* C1 as stated: a live row at version n+1 comes with a history of (e,k) of
\* exactly n+1 rows, versions 1..n+1, create then updates; and a history of
\* (e,k) ending in a delete row has exactly the rows 1..n+1 before it, the
\* delete row at version n+2 with the last live ciphertext and nonce, and no
\* live row.
C1_WholeHistoryIsOneLineage ==
    \A e \in AllEnvIds, k \in Keys :
       LET H == HistoryOf(history, e, k)
           live == GetSecret(secrets, e, k)
       IN  /\ live # <<>> =>
                /\ Len(H) = live[1].version
                /\ CreateThenUpdates(H, Len(H))
           /\ (H # <<>> /\ H[Len(H)].change = ChangeTypeDelete) =>
                /\ live = <<>>
                /\ CreateThenUpdates(H, Len(H) - 1)
                /\ H[Len(H)].version = Len(H)

\* C1 (amended): after Create(e,k) and n successful updates the live row is at
\* version n+1 and the rows of (e,k)'s history appended since that Create are
\* exactly n+1 rows with versions 1..n+1, the first of kind create, the others
\* of kind update, the last carrying the live ciphertext and nonce; a Delete
\* removes the live row and appends exactly one row of kind delete at version
\* n+2 carrying the last live ciphertext and nonce.  Rows of earlier lineages
\* of the same (e,k) stay in the history.
C1_VersionsCountWrites ==
    \A e \in AllEnvIds, k \in Keys :
       LET H == HistoryOf(history, e, k)
           L == Lineage(H)
           live == GetSecret(secrets, e, k)
       IN  /\ live # <<>> =>
                /\ Len(L) = live[1].version
                /\ CreateThenUpdates(L, Len(L))
                /\ L[Len(L)].value = live[1].value
                /\ L[Len(L)].nonce = live[1].nonce
           /\ (H # <<>> /\ H[Len(H)].change = ChangeTypeDelete) =>
                /\ live = <<>>
                /\ Len(L) >= 2
                /\ CreateThenUpdates(L, Len(L) - 1)
                /\ L[Len(L)].version = Len(L)
                /\ L[Len(L)].value = L[Len(L) - 1].value
                /\ L[Len(L)].nonce = L[Len(L) - 1].nonce

\* create, update and delete of one key: the delete row is at version 3
C1_Witness ==
    \E e \in AllEnvIds, k \in Keys :
       LET H == HistoryOf(history, e, k)
       IN  /\ Len(H) = 3
           /\ H[1].change = ChangeTypeCreate
           /\ H[2].change = ChangeTypeUpdate
           /\ H[2].version = 2
           /\ H[3].change = ChangeTypeDelete
           /\ H[3].version = 3
           /\ H[3].value = H[2].value
           /\ H[2].value # H[1].value
           /\ GetSecret(secrets, e, k) = <<>>

\* the last history row of (e,k) says what the live table holds for (e,k)
LiveMatchesLedger(e, k) ==
    LET H == HistoryOf(history, e, k)
        live == GetSecret(secrets, e, k)
    IN  IF H = <<>> \/ H[Len(H)].change = ChangeTypeDelete
        THEN live = <<>>
        ELSE /\ live # <<>>
             /\ live[1].version = H[Len(H)].version
             /\ live[1].value = H[Len(H)].value
             /\ live[1].nonce = H[Len(H)].nonce

\* C2: whatever step of CreateSecret, UpdateSecret or DeleteSecret fails, no
\* state holds a live-row change without its history row or a history row
\* without its live-row change: for every key of every existing environment
\* the live row is the one the last history row describes, and a failing
\* write leaves both tables as they were.
C2_WritesAreAtomic ==
    /\ \A e \in EnvIds(environments), k \in Keys : LiveMatchesLedger(e, k)
    /\ \A e \in AllEnvIds, k \in Keys, b \in Blobs, f \in FailPoints :
          /\ LET r == CreateSecretTx(environments, DB, e, k, b, f)
             IN  r.err # ErrNil => r.db = DB
          /\ LET r == UpdateSecretTx(DB, e, k, b, f)
             IN  r.err # ErrNil => r.db = DB
          /\ LET r == DeleteSecretTx(DB, e, k, f)
             IN  r.err # ErrNil => r.db = DB

\* a live row at version 2 exists: a failed Update or Delete of it would have
\* passed the live-row write before failing
C2_Witness ==
    \E e \in EnvIds(environments), k \in Keys :
       /\ GetSecret(secrets, e, k) # <<>>
       /\ GetSecret(secrets, e, k)[1].version = 2
       /\ UpdateSecretTx(DB, e, k, Blob1, "history").err # ErrNil
       /\ DeleteSecretTx(DB, e, k, "commit").err # ErrNil
       /\ \E k2 \in Keys :
             /\ GetSecret(secrets, e, k2) = <<>>
             /\ CreateSecretTx(environments, DB, e, k2, Blob1, "history").err # ErrNil

(***************************************************************************)
(* Properties of inheritance.  The chain of an environment is stated here  *)
(* from the parent links alone, without the walk's bookkeeping.            *)
(***************************************************************************)
RECURSIVE ParentChain(_, _, _)
\* e's ancestors, nearest first, following at most `fuel` parent links
ParentChain(envs, id, fuel) ==
    LET row == GetEnvironment(envs, id)
    IN  IF fuel = 0 \/ row = <<>> \/ row[1].parent = <<>> THEN <<>>
        ELSE <<row[1].parent[1]>> \o ParentChain(envs, row[1].parent[1], fuel - 1)

\* e followed by all its ancestors, nearest first
FullChain(envs, id) == <<id>> \o ParentChain(envs, id, Cardinality(envs))

Definers(secs, chain, key) ==
    { i \in 1..Len(chain) : GetSecret(secs, chain[i], key) # <<>> }

\* what resolving key from the first environment of chain must return
Nearest(secs, chain, key) ==
    LET D == Definers(secs, chain, key)
        i == CHOOSE j \in D : \A l \in D : j <= l
    IN  [secret |-> GetSecret(secs, chain[i], key)[1],
         sourceEnv |-> chain[i],
         inherited |-> chain[i] # chain[1]]

\* C3: GetSecretWithInheritance(e,k) returns e's own row, not inherited, when
\* e defines k; otherwise the row of the nearest ancestor that defines k,
\* inherited, with that ancestor as source; ErrNotFound only when neither e
\* nor any ancestor defines k.
C3_GetReturnsNearestDefiner ==
    (ret.op = "GetSecretWithInheritance" /\ ret.env \in EnvIds(environments)) =>
       LET chain == FullChain(environments, ret.env)
       IN  IF Definers(secrets, chain, ret.key) = {}
           THEN ret.err = ErrNotFound /\ ret.res = <<>>
           ELSE /\ ret.err = ErrNil
                /\ ret.res = << Nearest(secrets, chain, ret.key) >>

\* C4: ListSecretsWithInheritance(e) returns exactly one entry for each key
\* defined by e or by any of its ancestors, each entry the nearest definer's
\* row with that environment as source and inherited = (source # e), in
\* strictly increasing lexicographic key order.
C4_ListIsUnionOfChain ==
    (ret.op = "ListSecretsWithInheritance" /\ ret.env \in EnvIds(environments)) =>
       LET chain == FullChain(environments, ret.env)
           defined == { k \in Keys : Definers(secrets, chain, k) # {} }
       IN  /\ ret.err = ErrNil
           /\ { ret.res[i].secret.key : i \in 1..Len(ret.res) } = defined
           /\ \A i \in 1..Len(ret.res) :
                 ret.res[i] = Nearest(secrets, chain, ret.res[i].secret.key)
           /\ \A i \in 1..(Len(ret.res) - 1) :
                 LexLess(ret.res[i].secret.key, ret.res[i + 1].secret.key)

(***************************************************************************)
(* Properties of the commands that decrypt.                                *)
(***************************************************************************)
\* C5: a command (get, list --show-values, history --show-values, export,
\* run) holds a key and has decrypted values in its output only if, at the
\* moment it fetched the key, there was a session and it had not expired; a
\* command begun when there was no session (after Lock) or an expired one
\* has failed, with no key fetched and nothing decrypted.
C5_DecryptionIsGated ==
    /\ cmd.encKey # <<>> => cmd.gate
    /\ cmd.out # {} => cmd.gate /\ cmd.encKey # <<>>
    /\ cmd.lockedAtBegin =>
          /\ cmd.pc = "done"
          /\ cmd.err # ErrNil
          /\ cmd.encKey = <<>>
          /\ cmd.out = {}

\* a get of a secret that exists began while the session was good and came
\* to fetch the key after the session had expired: it failed with nothing
\* decrypted
C5_Witness ==
    /\ cmd.name = "get"
    /\ cmd.pc = "done"
    /\ ~cmd.lockedAtBegin
    /\ cmd.rows # <<>>
    /\ cmd.err = ErrSessionExpired
    /\ cmd.out = {}
    /\ vault.session = <<>>

(***************************************************************************)
(* Properties of the vault.                                                *)
(***************************************************************************)
Initialized == vault.initWith # <<>>

InitPassword == vault.initWith[1].password

InitKey == vault.initWith[1].key

\* C6: once Initialize(p) has succeeded, whatever was called since: a GetKey
\* that succeeds returns the key derived at Initialize, the GetKey that has
\* just returned returned that key, and Unlock(p) succeeds and leaves a
\* session with that key.
C6_OneKeyForever ==
    Initialized =>
        /\ LET g == GetKey(vault, now)
           IN  g.err = ErrNil => g.key = <<InitKey>>
        /\ ret.op = "GetKey" /\ ret.err = ErrNil => ret.res = <<InitKey>>
        /\ LET u == Unlock(vault, InitPassword, now)
           IN  /\ u.err = ErrNil
               /\ GetKey(u.v, now).key = <<InitKey>>
        /\ ret.op = "Unlock" /\ ret.res = <<InitPassword>> => ret.err = ErrNil

\* Unlock(p) has just succeeded, later than time 0, and made a new session:
\* the key to get is the key of Initialize
C6_Witness ==
    /\ Initialized
    /\ ret.op = "Unlock"
    /\ ret.res = <<InitPassword>>
    /\ ret.err = ErrNil
    /\ now > 0
    /\ vault.session[1].expires_at = now + SessionDuration
    /\ GetKey(vault, now).key = <<InitKey>>

\* C7: on an initialized vault, Unlock(q) with q other than the password of
\* Initialize returns ErrInvalidPassword and changes nothing: the session
\* file (absent or present) and the vault metadata stay as they were.
C7_WrongPasswordChangesNothing ==
    Initialized =>
        /\ \A q \in Passwords \ { InitPassword } :
              LET u == Unlock(vault, q, now)
              IN  /\ u.err = ErrInvalidPassword
                  /\ u.v.session = vault.session
                  /\ u.v.meta = vault.meta
                  /\ u.v = vault
        /\ ret.op = "Unlock" /\ ret.res # <<InitPassword>> =>
              ret.err = ErrInvalidPassword

\* Unlock with the wrong password has just failed on a locked vault, which
\* is still locked
C7_Witness ==
    /\ Initialized
    /\ ret.op = "Unlock"
    /\ ret.res # <<InitPassword>>
    /\ ret.err = ErrInvalidPassword
    /\ vault.session = <<>>
    /\ ~IsUnlocked(vault, now)

\* C8: GetKey returns the key of the session and changes nothing when there
\* is a session and the clock is not after its expiry; when the clock is
\* after its expiry it returns ErrSessionExpired and deletes the session
\* (and nothing else), so that a GetKey after it returns ErrLocked; when
\* there is no session it returns ErrLocked and changes nothing.
C8_GetKeyCases ==
    LET g == GetKey(vault, now)
    IN  /\ vault.session # <<>> /\ ~Expired(vault, now) =>
              /\ g.err = ErrNil
              /\ g.key = <<vault.session[1].key>>
              /\ g.v = vault
        /\ Expired(vault, now) =>
              /\ g.err = ErrSessionExpired
              /\ g.key = <<>>
              /\ g.v = [vault EXCEPT !.session = <<>>]
              /\ \A t \in now..(MaxTime + 1) : GetKey(g.v, t).err = ErrLocked
        /\ vault.session = <<>> =>
              /\ g.err = ErrLocked
              /\ g.key = <<>>
              /\ g.v = vault
        /\ ret.op = "GetKey" /\ ret.err = ErrSessionExpired =>
              vault.session = <<>> /\ g.err = ErrLocked

\* GetKey has just found the session expired: the session is gone
C8_Witness ==
    /\ ret.op = "GetKey"
    /\ ret.err = ErrSessionExpired
    /\ vault.session = <<>>
    /\ now > SessionDuration

\* what one step may do to the session
SessionStep ==
    /\ vault'.session # vault.session =>
          \/ vault'.session = <<>>
          \/ /\ ret'.op \in { "Initialize", "Unlock", "UnlockWithKeychain", "unlock" }
             /\ ret'.err = ErrNil
             /\ vault'.session[1].expires_at = now + SessionDuration
    /\ ret'.op \in { "IsUnlocked", "VerifyPassword", "none", "GetStore",
                     "EnableKeychain", "DisableKeychain" } =>
          vault'.session = vault.session
    /\ ret'.op = "unlock" /\ IsUnlocked(vault, now) =>
          vault'.session = vault.session
    /\ ret'.op = "GetKey" =>
          /\ vault'.session \in { vault.session, <<>> }
          /\ ret'.err = ErrNil =>
                /\ vault'.session = vault.session
                /\ vault.session # <<>>
                /\ now <= vault.session[1].expires_at

\* C9: a session is written only by a successful Initialize, Unlock or
\* UnlockWithKeychain, with its expiry SessionDuration (8 hours) after the
\* moment of the call; no other step changes a session other than to delete
\* it: not GetKey, IsUnlocked, VerifyPassword, the unlock command on an
\* unlocked vault, or a write to the store; and GetKey returns a key only
\* when the clock is not after that expiry.
C9_ExpiryFixedAtCreation == [][SessionStep]_vars

\* the unlock command has just found the vault unlocked, hours after the
\* session was made, and the session still ends when it did
C9_Witness ==
    /\ ret.op = "unlock"
    /\ ret.res = <<"Vault is already unlocked">>
    /\ vault.session # <<>>
    /\ vault.session[1].expires_at < now + SessionDuration
    /\ secrets # {}

\* the key the keychain entry holds, if it holds one
KeychainKey ==
    IF vault.keychain # <<>> /\ vault.keychain[1].text = "base64"
    THEN <<vault.keychain[1].bytes>>
    ELSE <<>>

\* C10: on a vault that has its metadata, UnlockWithKeychain succeeds only
\* if the flag is set and the keychain holds a key that opens the key
\* check, and then the session holds that key; with the flag unset it
\* returns ErrKeychainNotEnabled; with the flag set and no entry, or an
\* entry other than the key of Initialize, it fails; whenever it fails it
\* changes nothing.
C10_KeychainKeyIsChecked ==
    vault.meta # <<>> =>
        LET r == UnlockWithKeychain(vault, now)
            opened == Decrypt(KeychainKey[1], vault.meta[1].KeyCheck,
                              vault.meta[1].KeyCheckNonce, NoAAD)
        IN  /\ r.err = ErrNil =>
                  /\ vault.meta[1].KeychainEnabled
                  /\ KeychainKey # <<>>
                  /\ opened.err = ErrNil
                  /\ opened.plaintext = <<KeyCheckValue>>
                  /\ r.v.session[1].key = KeychainKey[1]
                  /\ Initialized /\ KeychainKey = <<InitKey>>
            /\ ~vault.meta[1].KeychainEnabled => r.err = ErrKeychainNotEnabled
            /\ vault.meta[1].KeychainEnabled /\ vault.keychain = <<>> =>
                  r.err = ErrGetKeyFromKeychain
            /\ /\ vault.meta[1].KeychainEnabled
               /\ vault.keychain # <<>>
               /\ vault.keychain # <<Base64Encode(InitKey)>>
               => r.err \in { ErrGetKeyFromKeychain, ErrKeychainKeyInvalid,
                              ErrKeychainKeyInvalidDecryption }
            /\ r.err # ErrNil => r.v = vault
            /\ ret.op = "UnlockWithKeychain" /\ ret.err = ErrNil =>
                  vault.session # <<>> /\ vault.session[1].key = InitKey

\* UnlockWithKeychain has just refused a key of the right length that is not
\* the key of the vault, with the flag set: the vault is still locked
C10_Witness ==
    /\ ret.op = "UnlockWithKeychain"
    /\ ret.err = ErrKeychainKeyInvalidDecryption
    /\ vault.meta[1].KeychainEnabled
    /\ KeychainKey # <<>>
    /\ KeychainKey # <<InitKey>>
    /\ vault.session = <<>>

(***************************************************************************)
(* Properties of reference resolution.  What a value should resolve to is  *)
(* stated here from the tokens of the value as written, each replaced      *)
(* where it stands.                                                        *)
(***************************************************************************)
\* the names the tokens of a value refer to
RefsOf(value) ==
    { FindAllStringSubmatch(value)[i].name : i \in DOMAIN FindAllStringSubmatch(value) }

AllRefsPresent(secs) ==
    \A k \in DOMAIN secs : RefsOf(secs[k]) \subseteq DOMAIN secs

RECURSIVE Reaches(_, _, _, _)
\* key b is reached from key a by following references, in at most fuel steps
Reaches(secs, a, b, fuel) ==
    /\ fuel > 0
    /\ a \in DOMAIN secs
    /\ \/ b \in RefsOf(secs[a])
       \/ \E c \in RefsOf(secs[a]) : Reaches(secs, c, b, fuel - 1)

OnCycle(secs, k) == Reaches(secs, k, k, Cardinality(DOMAIN secs))

Acyclic(secs) == \A k \in DOMAIN secs : ~OnCycle(secs, k)

RECURSIVE Expanded(_, _)
RECURSIVE Splice(_, _, _, _, _)
\* value from position pos on, with matches m.. replaced where they stand
Splice(secs, value, matches, m, pos) ==
    IF m > Len(matches) THEN SubSeq(value, pos, Len(value))
    ELSE SubSeq(value, pos, matches[m].from - 1)
            \o Expanded(secs, matches[m].name)
            \o Splice(secs, value, matches, m + 1, matches[m].to + 1)

\* the fully resolved value of key k (of a mapping that is acyclic, with all
\* references present)
Expanded(secs, k) ==
    Splice(secs, secs[k], FindAllStringSubmatch(secs[k]), 1, 1)

\* C11: when every reference of the mapping is present and no key is on a
\* cycle, Resolve returns no error and a mapping of the same keys in which
\* each value is the input value with each token replaced, where it stands,
\* by the fully resolved value of the key it names.
C11_ResolveReplacesInPlace ==
    /\ resolver.out # <<>>
    /\ AllRefsPresent(resolver.secrets)
    /\ Acyclic(resolver.secrets)
    => /\ resolver.out[1].err = NoErr
       /\ DOMAIN resolver.out[1].resolved = DOMAIN resolver.secrets
       /\ \A k \in DOMAIN resolver.secrets :
             resolver.out[1].resolved[k] = Expanded(resolver.secrets, k)

\* C12: when every reference of the mapping is present and some key is on a
\* cycle of references (of length one or more), Resolve returns an
\* ErrCircularReference and no mapping, in whatever order it goes through
\* the keys; the key it names is the last of the path it reports and occurs
\* earlier on that path.
C12_CycleIsReported ==
    /\ resolver.out # <<>>
    /\ AllRefsPresent(resolver.secrets)
    /\ \E k \in DOMAIN resolver.secrets : OnCycle(resolver.secrets, k)
    => LET e == resolver.out[1].err
       IN  /\ e.kind = "ErrCircularReference"
           /\ resolver.out[1].resolved = <<>>
           /\ e.Path[Len(e.Path)] = e.Key
           /\ \E i \in 1..(Len(e.Path) - 1) : e.Path[i] = e.Key
           /\ OnCycle(resolver.secrets, e.Key)

\* a cycle through all three keys has been reported
C12_Witness ==
    /\ resolver.out # <<>>
    /\ AllRefsPresent(resolver.secrets)
    /\ resolver.out[1].err.kind = "ErrCircularReference"
    /\ Len(resolver.out[1].err.Path) = 4
    /\ resolver.out[1].resolved = <<>>

\* the error is an ErrUnresolvedReference that names a missing key and a key
\* whose own value holds a token of it
NamesMissingReference(secs, e) ==
    /\ e.kind = "ErrUnresolvedReference"
    /\ e.Reference \notin DOMAIN secs
    /\ e.Key \in DOMAIN secs
    /\ e.Reference \in RefsOf(secs[e.Key])

OwnRow(secs, c, key) == MergedSecret(GetSecret(secs, c, key)[1], c, FALSE)

\* C14: while environment c holds a live row for key k, GetSecretWithInheritance(c, k)
\* returns c's own row, and ListSecretsWithInheritance(c) has c's own row as
\* its one entry for k, whatever was created, updated or deleted in c's
\* ancestors and whenever.
C14_OwnRowWins ==
    /\ (/\ ret.op = "GetSecretWithInheritance"
        /\ GetSecret(secrets, ret.env, ret.key) # <<>>)
       => /\ ret.err = ErrNil
          /\ ret.res = << OwnRow(secrets, ret.env, ret.key) >>
    /\ ret.op = "ListSecretsWithInheritance" =>
          \A k \in Keys :
             GetSecret(secrets, ret.env, k) # <<>> =>
                /\ ret.err = ErrNil
                /\ \E i \in 1..Len(ret.res) : ret.res[i] = OwnRow(secrets, ret.env, k)
                /\ \A i \in 1..Len(ret.res) :
                      ret.res[i].secret.key = k => ret.res[i] = OwnRow(secrets, ret.env, k)

\* environment 3 wrote the key first; its grandparent 1 then created the key
\* and updated it; a query from 3 answered with 3's row
C14_Witness ==
    /\ ret.op \in {"GetSecretWithInheritance", "ListSecretsWithInheritance"}
    /\ ret.env = 3
    /\ FullChain(environments, 3) = <<3, 2, 1>>
    /\ Len(history) = 3
    /\ history[1].env = 3
    /\ history[2].env = 1 /\ history[2].key = history[1].key
    /\ history[3].env = 1 /\ history[3].key = history[1].key
    /\ history[3].change = ChangeTypeUpdate
    /\ ret.err = ErrNil
    /\ \E i \in 1..Len(ret.res) : ret.res[i] = OwnRow(secrets, 3, history[1].key)

(***************************************************************************)
(* Properties of the ledger under deletion.                                *)
(***************************************************************************)
\* every row of the ledger is still there, unchanged and in its place
HistoryGrows ==
    /\ Len(history') >= Len(history)
    /\ SubSeq(history', 1, Len(history)) = history

\* C15: no step of the store (secret Create/Update/Delete, DeleteEnvironment,
\* DeleteProject) removes or changes a row of the ledger: the ledger after
\* the step begins with the ledger before it, so the history of a deleted
\* key, environment or project stays readable.
C15_HistoryOnlyGrows == [][HistoryGrows]_vars

\* a key was created and deleted, then its project was deleted, and the
\* key's two rows are still read
C15_Witness ==
    /\ ret.op = "DeleteProject" /\ ret.err = ErrNil
    /\ projects = {} /\ environments = {} /\ secrets = {}
    /\ \E k \in Keys :
          LET h == HistoryOf(history, 1, k)
          IN  /\ Len(h) = 2
              /\ h[1].change = ChangeTypeCreate
              /\ h[2].change = ChangeTypeDelete

\* C16: after DeleteProject(p) has succeeded, no environment of p, no live
\* secret of p's environments and no history row of p's environments is in
\* the store.
C16_DeleteProjectCascades ==
    (ret.op = "DeleteProject" /\ ret.err = ErrNil) =>
        /\ \A e \in environments : e.project # ret.env /\ e.id \notin ret.res[1]
        /\ \A s \in secrets : s.env \notin ret.res[1]
        /\ \A i \in 1..Len(history) : history[i].env \notin ret.res[1]

(***************************************************************************)
(* Properties of writes whose precondition fails.                          *)
(***************************************************************************)
Live(e, k) == GetSecret(secrets, e, k) # <<>>

\* what each write answers, in the state as it is
RefusedWrites ==
    \A e \in 1..(MaxEnvs + 1), k \in Keys, f \in FailPoints :
       /\ Cardinality({ s \in secrets : s.env = e /\ s.key = k }) <= 1
       /\ Live(e, k) =>
             \A b \in Blobs :
                LET r == CreateSecretTx(environments, DB, e, k, b, f)
                IN  r.err = "failed to create secret" /\ r.db = DB
       /\ ~Live(e, k) =>
             /\ \A b \in Blobs :
                   LET r == UpdateSecretTx(DB, e, k, b, f)
                   IN  r.err = ErrNotFound /\ r.db = DB
             /\ LET r == DeleteSecretTx(DB, e, k, f)
                IN  r.err = ErrNotFound /\ r.db = DB

\* a step that is such a write changes no table
RefusedWriteStep ==
    \/ UNCHANGED storeVars
    \/ \A e \in 1..(MaxEnvs + 1), k \in Keys, b \in Blobs, f \in FailPoints :
       /\ (Live(e, k) /\ CreateSecret(e, k, b, f)) => UNCHANGED storeVars
       /\ (~Live(e, k) /\ (UpdateSecret(e, k, b, f) \/ DeleteSecret(e, k, f)))
             => UNCHANGED storeVars

\* C17: Create(e,k) while (e,k) has a live row fails with the insert's
\* conflict error; Update(e,k) and Delete(e,k) while (e,k) has no live row,
\* never created or already deleted, fail with ErrNotFound; in each case no
\* history row is appended and every live row keeps its ciphertext, nonce
\* and version; there is never more than one live row per (environment, key).
C17_RefusedWritesChangeNothing == []RefusedWrites /\ [][RefusedWriteStep]_vars

\* one key was created and deleted, the other is live, and the last write
\* was refused: the ledger has the three rows of the writes that went
\* through
C17_Witness ==
    /\ \E k \in Keys :
          /\ ~Live(1, k)
          /\ Len(HistoryOf(history, 1, k)) = 2
          /\ HistoryOf(history, 1, k)[2].change = ChangeTypeDelete
          /\ DeleteSecretTx(DB, 1, k, "none").err = ErrNotFound
    /\ \E k \in Keys, b \in Blobs :
          /\ Live(1, k)
          /\ CreateSecretTx(environments, DB, 1, k, b, "none").err # ErrNil
    /\ Len(history) = 3

(***************************************************************************)
(* Properties of the values the commands print.                            *)
(***************************************************************************)
\* the decrypted, inheritance-merged mapping of an environment, under the
\* key the vault was initialized with
MergedMapping(envID) ==
    LET r == ListSecretsWithInheritance(environments, secrets, envID)
    IN  DecryptedSecrets(InitKey, [i \in DOMAIN r.res |-> r.res[i].secret])

\* C18: when get KEY --env E prints a value, in a store that no command has
\* written since get began, and Resolve succeeds on E's decrypted,
\* inheritance-merged mapping, the value printed is the one Resolve yields
\* for KEY.
C18_GetStep ==
    (/\ cmd.name = "get" /\ cmd.pc = "decrypt"
     /\ cmd'.pc = "done" /\ cmd'.err = ErrNil) =>
        \A order \in Orders(DOMAIN MergedMapping(cmd.env)) :
           LET res == Resolve(MergedMapping(cmd.env), order)
           IN  res.err = NoErr =>
                  cmd'.out = { [key |-> cmd.key,
                                value |-> res.resolved[KeyName(cmd.key)]] }

C18_GetPrintsResolvedValue == [][C18_GetStep]_vars

(***************************************************************************)
(* Properties of the audit log.                                            *)
(***************************************************************************)
\* the command did not get as far as opening the store
BeforeStore(err) == err \in { ErrNotInitialized, ErrLocked }

\* the step appends one row to the audit log, for this environment and key,
\* saying whether the command succeeded
Audited(envID, key, err) ==
    /\ Len(audit') = Len(audit) + 1
    /\ audit'[Len(audit')].EnvironmentID = envID
    /\ audit'[Len(audit')].SecretKey = key
    /\ audit'[Len(audit')].Success = (err = ErrNil)

C19_AuditStep ==
    /\ Len(audit') >= Len(audit)
    /\ SubSeq(audit', 1, Len(audit)) = audit
    /\ (/\ cmd' # cmd /\ cmd'.pc = "done"
        /\ cmd'.name \in { "get", "export", "run" }
        /\ ~BeforeStore(cmd'.err))
       => Audited(cmd'.env, IF cmd'.name = "get" THEN cmd'.key ELSE <<>>, cmd'.err)
    /\ (ret'.op = "set" /\ history' # history)
       => Audited(ret'.env, ret'.key, ret'.err)

\* C19: every step in which a get, export or run command that reached the
\* store finishes, and every set that wrote, appends one row to the audit
\* log naming the environment and key and saying whether it succeeded; no
\* step changes or removes a row of the audit log.
C19_CommandsAreAudited == [][C19_AuditStep]_vars

(***************************************************************************)
(* Properties of the ancestor walk on graphs with cycles.                  *)
(***************************************************************************)
RECURSIVE Revisits(_, _, _, _)
\* following parent links from id, with the environments in seen behind,
\* comes to an environment a second time
Revisits(envs, id, seen, fuel) ==
    LET row == GetEnvironment(envs, id)
    IN  IF id \in seen THEN TRUE
        ELSE IF fuel = 0 \/ row = <<>> \/ row[1].parent = <<>> THEN FALSE
        ELSE Revisits(envs, row[1].parent[1], seen \cup {id}, fuel - 1)

Take(seq, n) == SubSeq(seq, 1, IF Len(seq) < n THEN Len(seq) ELSE n)

\* the ancestors the walk reaches: the nearest MaxAncestorHops - 1
WalkedChain(envs, id) ==
    Take(ParentChain(envs, id, Cardinality(envs)), MaxAncestorHops - 1)

ParentsExist ==
    \A e \in environments :
       e.parent # <<>> => e.parent[1] \in EnvIds(environments)

\* an environment with a child: the store refuses to delete it, and an env
\* delete that has just named it was refused and it is still there
ParentsAreKept ==
    /\ ParentsExist
    /\ \A e \in environments :
          GetEnvironmentChildren(environments, e.id) # {} =>
             DeleteEnvironmentResult(environments, e.id) = "failed to delete environment"
    /\ (/\ ret.op = "env delete" /\ ret.err \notin { ErrNotFound, ErrNotInitialized, ErrLocked,
                                                       "no active project",
                                                       "active project not found" }
        /\ GetEnvironmentChildren(environments, ret.env) # {})
       => ret.err = "has child environments" /\ ret.res = <<FALSE>>

\* a step that deletes, or asks to delete, an environment with a child
\* changes no table
ParentDeleteStep ==
    \/ UNCHANGED storeVars
    \/ \A e \in EnvIds(environments) :
          (/\ GetEnvironmentChildren(environments, e) # {}
           /\ \/ DeleteEnvironment(e)
              \/ \E p \in ForestProjects, yes \in BOOLEAN : runEnvDelete(<<p>>, e, yes))
          => UNCHANGED storeVars

\* C22: an environment that has a child cannot be deleted: env delete
\* refuses with its children message, DeleteEnvironment fails in the store,
\* and neither removes anything; in every reachable state each
\* environment's parent id names an existing environment.
C22_ParentsCannotBeDeleted == []ParentsAreKept /\ [][ParentDeleteStep]_vars

\* env delete has just been refused for environment 1, which has a child
C22_Witness ==
    /\ ret.op = "env delete" /\ ret.env = 1
    /\ ret.err = "has child environments"
    /\ \E c \in environments : c.parent = <<1>>
    /\ 1 \in EnvIds(environments)

(***************************************************************************)
(* Properties of what a failed key check reveals.                          *)
(***************************************************************************)
\* the key check of v fails for key because the ciphertext does not open
FailsToOpen(v, key) ==
    Decrypt(key, v.meta[1].KeyCheck, v.meta[1].KeyCheckNonce, NoAAD).err
        = ErrDecryptionFailed

\* the key check of v fails for key because what opens is another text
OpensToOtherText(v, key) ==
    LET d == Decrypt(key, v.meta[1].KeyCheck, v.meta[1].KeyCheckNonce, NoAAD)
    IN  d.err = ErrNil /\ d.plaintext[1] # KeyCheckValue

\* the key UnlockWithKeychain gets to check in v, if it gets that far
KeyToCheck(v) ==
    IF v.meta[1].KeychainEnabled /\ GetKeyFromKeychain(v).err = ErrNil
    THEN GetKeyFromKeychain(v).key
    ELSE <<>>

SessionInFuture == vault.session # <<>> /\ now < vault.session[1].expires_at

\* a call of IsUnlocked leaves the vault, the keychain and the store alone
IsUnlockedStep == ret'.op = "IsUnlocked" => UNCHANGED <<vault, storeVars>>

\* C24: IsUnlocked returns true exactly when there is a session whose
\* expiry is strictly later than the present, and the call changes neither
\* the session nor the vault metadata, an expired session included.
C24_IsUnlockedOnlyReads ==
    /\ [](ret.op = "IsUnlocked" => ret.res = <<SessionInFuture>>)
    /\ [][IsUnlockedStep]_vars

\* IsUnlocked has answered false at the very instant a session expires, and
\* the session is still there
C24_Witness ==
    /\ ret.op = "IsUnlocked"
    /\ ret.res = <<FALSE>>
    /\ vault.session # <<>>
    /\ now = vault.session[1].expires_at

(***************************************************************************)
(* Properties of Initialize on a vault that exists.                        *)
(***************************************************************************)
\* a call of Initialize on a vault whose database exists: the error, the
\* vault as it was, and the passwords that unlock it afterwards
InitializeRefusedStep ==
    (ret'.op = "Initialize" /\ IsInitialized(vault))
    => /\ ret'.err = ErrAlreadyInitialized
       /\ vault'.meta = vault.meta
       /\ vault'.session = vault.session
       /\ UNCHANGED storeVars
       /\ vault.initWith # <<>>
          => /\ Unlock(vault', vault.initWith[1].password, now').err = ErrNil
             /\ ret'.res[1] # vault.initWith[1].password
                => Unlock(vault', ret'.res[1], now').err = ErrInvalidPassword

\* C25: Initialize on a vault that is already initialized fails with
\* ErrAlreadyInitialized and leaves the salt, the key check, the keychain
\* flag and the session as they were; afterwards the password of the first
\* Initialize unlocks the vault and the password passed to the refused one,
\* being another, does not.
C25_InitializeTwiceIsRefused == [][InitializeRefusedStep]_vars

\* a second Initialize with another password has been refused while a
\* session was open
C25_Witness ==
    /\ ret.op = "Initialize"
    /\ ret.err = ErrAlreadyInitialized
    /\ vault.initWith # <<>>
    /\ ret.res[1] # vault.initWith[1].password
    /\ vault.session # <<>>

(***************************************************************************)
(* Properties of Lock.                                                     *)
(***************************************************************************)
\* a call of Lock: it succeeds, no session is left, and all it has changed
\* is the session file
LockStep ==
    ret'.op = "Lock"
    => /\ ret'.err = ErrNil
       /\ ~IsUnlocked(vault', now')
       /\ GetKey(vault', now').err = ErrLocked
       /\ vault.session = <<>> => vault' = vault
       /\ vault'.dbExists = vault.dbExists
       /\ vault'.meta = vault.meta
       /\ vault'.keychain = vault.keychain
       /\ UNCHANGED storeVars

\* C26: Lock deletes the session whatever the state: after it IsUnlocked is
\* false and GetKey returns ErrLocked; with no session, a second Lock
\* included, it succeeds and changes nothing; it changes neither the vault
\* metadata nor the stored secrets.
C26_LockDeletesOnlyTheSession == [][LockStep]_vars

\* Lock has returned on an initialized vault that holds a secret
C26_Witness ==
    /\ ret.op = "Lock"
    /\ vault.meta # <<>>
    /\ vault.session = <<>>
    /\ secrets # {}

(***************************************************************************)
(* Properties of VerifyPassword.                                           *)
(***************************************************************************)
\* a call of VerifyPassword leaves the vault, its session and the store alone
VerifyPasswordStep == ret'.op = "VerifyPassword" => UNCHANGED <<vault, storeVars>>

\* C27: VerifyPassword accepts exactly the passwords Unlock accepts (and
\* fails as Unlock fails), and whether it succeeds or fails it leaves the
\* session as it was: none where there was none, the same key and expiry
\* where there was one.
C27_VerifyPasswordOnlyChecks ==
    /\ [](ret.op = "VerifyPassword"
            => ret.err = Unlock(vault, ret.res[1], now).err)
    /\ [][VerifyPasswordStep]_vars

\* VerifyPassword has accepted a password while the vault is locked, and
\* the vault is still locked
C27_Witness ==
    /\ ret.op = "VerifyPassword"
    /\ ret.err = ErrNil
    /\ vault.session = <<>>

(***************************************************************************)
(* Properties of the order in which Resolve goes through the map.          *)
(***************************************************************************)
\* C28: whatever the mapping, Resolve returns the same outcome, resolved
\* mapping or error, in whichever order its range visits the keys: what a
\* call has returned is what every order of the keys returns.
C28_OrderDoesNotMatter ==
    resolver.out # <<>>
    => \A order \in Orders(DOMAIN resolver.secrets) :
          Resolve(resolver.secrets, order) = resolver.out[1]

(***************************************************************************)
(* Properties of key names.                                                *)
(***************************************************************************)
\* refPattern's group ([A-Z][A-Z0-9_]*) matches the whole of key
IsReferenceName(key) ==
    /\ Len(key) >= 1
    /\ key[1] \in 65..90
    /\ \A j \in 2..Len(key) : key[j] \in (65..90) \cup (48..57) \cup { 95 }

\* C29: set accepts a key name exactly when it is an uppercase letter
\* followed by uppercase letters, digits and underscores, the grammar of the
\* name in a ${NAME} reference; any other name is refused with nothing
\* stored, so every stored key has that form.
C29_KeyNamesAreReferenceNames ==
    /\ (ret.op = "set" /\ ret.err \in { ErrNil, ErrInvalidKeyName })
       => (ret.err = ErrNil <=> IsReferenceName(ret.key))
    /\ \A s \in secrets : IsReferenceName(s.key)

(***************************************************************************)
(* Properties of the depth bound of Resolve.                               *)
(***************************************************************************)
\* the mapping given to Resolve is the chain K0 -> ... -> Kn
IsChain(secs, n) ==
    \E prefix \in ChainPrefixes, end \in ChainEnds : secs = Chain(n, prefix, end)

\* no key is twice in path
NoRepeat(path) == \A i, j \in DOMAIN path : i # j => path[i] # path[j]

RECURSIVE Repeated(_, _)
\* n copies of s one after the other
Repeated(s, n) == IF n = 0 THEN <<>> ELSE s \o Repeated(s, n - 1)

\* C30: a chain of references K0 -> K1 -> ... -> Kn without a cycle, Kn a
\* plain value, resolves when n <= 10, K0 becoming the n prefixes and the
\* plain value, and makes Resolve fail with ErrCircularReference when
\* n >= 11, with a path on which no key is twice.
C30_ChainsOfElevenFail ==
    \A n \in 0..MaxRefChain :
       (resolver.out # <<>> /\ IsChain(resolver.secrets, n))
       => LET out == resolver.out[1]
          IN  IF n <= 10
              THEN /\ out.err = NoErr
                   /\ DOMAIN out.resolved = DOMAIN resolver.secrets
                   /\ \E prefix \in ChainPrefixes, end \in ChainEnds :
                         /\ resolver.secrets = Chain(n, prefix, end)
                         /\ out.resolved[ChainKey(0)] = Repeated(prefix, n) \o end
              ELSE /\ out.err.kind = "ErrCircularReference"
                   /\ Len(out.err.Path) = 12
                   /\ NoRepeat(out.err.Path)

\* Resolve has failed on the chain K0 -> ... -> K11
C30_Witness ==
    /\ resolver.out # <<>>
    /\ IsChain(resolver.secrets, 11)
    /\ resolver.out[1].err.kind = "ErrCircularReference"

\* Resolve has succeeded on the chain K0 -> ... -> K10
C30_TenResolves ==
    /\ resolver.out # <<>>
    /\ IsChain(resolver.secrets, 10)
    /\ resolver.out[1].err = NoErr

(***************************************************************************)
(* Properties of restore.                                                  *)
(***************************************************************************)
\* a step of restore: e, k and v are what it was asked, h the history entry
\* it read, live the live row before it
RestoreStep ==
    ret'.op = "restore"
    => LET e == ret'.env
           k == ret'.key
           v == ret'.res[1]
           read == Len(ret'.res) = 2
           live == GetSecret(secrets, e, k)
       IN  /\ GetSecretVersion(history, e, k, v) = {} => ~read
           /\ read => \E i \in GetSecretVersion(history, e, k, v) :
                          history[i] = ret'.res[2]
           /\ (~read \/ ret'.res[2].change = ChangeTypeDelete)
              => ret'.err # ErrNil /\ UNCHANGED storeVars
           /\ (read /\ ret'.res[2].change # ChangeTypeDelete)
              => LET h == ret'.res[2]
                     version == IF live = <<>> THEN 1 ELSE live[1].version + 1
                     kind == IF live = <<>> THEN ChangeTypeCreate ELSE ChangeTypeUpdate
                     row == [env |-> e, key |-> k, value |-> h.value,
                             nonce |-> h.nonce, version |-> version]
                 IN  /\ ret'.err = ErrNil
                     /\ secrets' = { s \in secrets : ~(s.env = e /\ s.key = k) }
                                       \cup { row }
                     /\ history' = Append(history,
                                          [env |-> e, key |-> k, value |-> h.value,
                                           nonce |-> h.nonce, version |-> version,
                                           change |-> kind])
                     /\ UNCHANGED <<projects, environments, nextId, audit>>

\* C31: restore KEY --version v fails and changes nothing when the ledger of
\* (e,KEY) has no row of version v or the row it reads is a deletion;
\* otherwise the live row takes the ciphertext and nonce of that row as they
\* are, by an update (live version + 1) when there is a live row and by a
\* create (version 1) when there is none, and the ledger gets one row.
C31_RestoreWritesBackTheRow == [][RestoreStep]_vars

\* version 1 has been restored over version 2: the live row is at version 3
\* with the ciphertext of version 1
C31_Witness ==
    /\ ret.op = "restore" /\ ret.err = ErrNil /\ ret.res[1] = 1
    /\ Len(history) = 3
    /\ history[2].value # history[1].value
    /\ history[3] = [history[1] EXCEPT !.version = 3, !.change = ChangeTypeUpdate]
    /\ GetSecret(secrets, 1, <<66>>) # <<>>
    /\ GetSecret(secrets, 1, <<66>>)[1].value = history[1].value

\* a key deleted and then restored from its ledger is live again at version 1
C31_RestoredAfterDelete ==
    /\ ret.op = "restore" /\ ret.err = ErrNil
    /\ Len(history) = 3
    /\ history[2].change = ChangeTypeDelete
    /\ history[3].change = ChangeTypeCreate

(***************************************************************************)
(* Properties of resolution over inherited values.                         *)
(***************************************************************************)
\* the keys that envID or one of its ancestors defines
DefinedFor(envID) ==
    { k \in Keys : Definers(secrets, FullChain(environments, envID), k) # {} }

\* the row that is authoritative for envID: the nearest definer's
AuthoritativeRow(envID, k) ==
    Nearest(secrets, FullChain(environments, envID), k).secret

\* the authoritative rows of envID all open with encKey
AllDecrypt(envID, encKey) ==
    \A k \in DefinedFor(envID) :
       DecryptRow(encKey, AuthoritativeRow(envID, k)).err = ErrNil

\* name -> plain value, of the rows authoritative for envID
Authoritative(envID, encKey) ==
    [n \in { KeyName(k) : k \in DefinedFor(envID) } |->
        LET k == CHOOSE x \in DefinedFor(envID) : KeyName(x) = n
        IN  DecryptRow(encKey, AuthoritativeRow(envID, k)).plaintext[1]]

\* run or export --resolve comes to its end
C32_OutputStep ==
    (/\ cmd.name \in { "run", "export" } /\ cmd.show
     /\ cmd.pc = "decrypt" /\ cmd'.pc = "done")
    => LET E == cmd.env
           encKey == cmd.encKey[1]
           ok == /\ AllDecrypt(E, encKey)
                 /\ AllRefsPresent(Authoritative(E, encKey))
                 /\ Acyclic(Authoritative(E, encKey))
       IN  /\ cmd'.err = ErrNil <=> ok
           /\ ~ok => cmd'.out = {}
           /\ ok => cmd'.out =
                       { [key |-> k,
                          value |-> Expanded(Authoritative(E, encKey), KeyName(k))] :
                            k \in DefinedFor(E) }

\* C32: run and export --resolve for environment E give each key defined by
\* E or an ancestor its value with every token replaced by the value that
\* is authoritative for E of the key it names, also in a value inherited
\* from an ancestor that sees another value of that key; and they give
\* output only when every authoritative row decrypts and the references are
\* all present and without a cycle.
C32_ResolvesInTheMergedMapping == [][C32_OutputStep]_vars

\* the parent defines AB as a reference to B and B as one text, the child
\* defines B as another: in the child AB has come out as the child's B
C32_Witness ==
    /\ cmd.name \in { "run", "export" } /\ cmd.pc = "done" /\ cmd.err = ErrNil
    /\ cmd.env = 2
    /\ GetSecret(secrets, 2, <<65, 66>>) = <<>>
    /\ GetSecret(secrets, 1, <<66>>) # <<>>
    /\ GetSecret(secrets, 2, <<66>>) # <<>>
    /\ [key |-> <<65, 66>>, value |-> <<"v">>] \in cmd.out
    /\ [key |-> <<66>>, value |-> <<"v">>] \in cmd.out
    /\ DecryptRow(InitKey, GetSecret(secrets, 1, <<66>>)[1]).plaintext = << <<"$">> >>

(***************************************************************************)
(* Properties of writes in progress.                                       *)
(***************************************************************************)
\* a live row and a ledger that a reader has of one key go together: the
\* live row is the one the last row of the ledger describes
SeenTogether(live, H) ==
    IF H = <<>> \/ H[Len(H)].change = ChangeTypeDelete
    THEN live = <<>>
    ELSE /\ live # <<>>
         /\ live[1].version = H[Len(H)].version
         /\ live[1].value = H[Len(H)].value
         /\ live[1].nonce = H[Len(H)].nonce

\* C33: whatever statement a Create, Update or Delete of (e,k) has reached,
\* another invocation reads nothing of it before it commits: what it reads
\* is never a live row at version v without the ledger row of version v,
\* nor a ledger that ends in a delete row with the live row still there.
C33_ReadersSeeCommittedWrites ==
    ret.op = "read" => SeenTogether(ret.res[1], ret.res[2])

\* a reader has read while an update of the key had written its live row
\* and not yet its ledger row
C33_Witness ==
    /\ ret.op = "read"
    /\ ret.res[1] # <<>>
    /\ \E w \in Invocations :
          /\ conns[w].pc = "live"
          /\ conns[w].op = "update"
          /\ GetSecret(conns[w].work[1].secrets, 1, <<66>>)[1].version
                = ret.res[1][1].version + 1

\* the version of the live row of (e,k), 0 when there is none
LiveVersion(secs, e, k) ==
    IF GetSecret(secs, e, k) = <<>> THEN 0 ELSE GetSecret(secs, e, k)[1].version

RECURSIVE VersionsAscend(_, _)
\* from row i on, each row of H is a create at version 1 or comes at the
\* version after the row before it
VersionsAscend(H, i) ==
    \/ i > Len(H)
    \/ /\ \/ H[i].change = ChangeTypeCreate /\ H[i].version = 1
          \/ /\ i > 1
             /\ H[i].change # ChangeTypeCreate
             /\ H[i - 1].change # ChangeTypeDelete
             /\ H[i].version = H[i - 1].version + 1
       /\ VersionsAscend(H, i + 1)

\* one live row at most, and a ledger whose lineages have no version twice
OneLiveRowDistinctVersions ==
    \A e \in AllEnvIds, k \in Keys :
       /\ Cardinality({ r \in secrets : r.env = e /\ r.key = k }) <= 1
       /\ VersionsAscend(HistoryOf(history, e, k), 1)

\* a commit of a set moves the live version on by one; nothing else moves it
\* but the commit of a delete
CommitStep ==
    \A e \in AllEnvIds, k \in Keys :
       IF /\ ret'.op \in { "create", "update" } /\ ret'.err = ErrNil
          /\ ret'.env = e /\ ret'.key = k
          /\ conns'[ret'.res[1]] # conns[ret'.res[1]]
       THEN LiveVersion(secrets', e, k) = LiveVersion(secrets, e, k) + 1
       ELSE \/ LiveVersion(secrets', e, k) = LiveVersion(secrets, e, k)
            \/ /\ ret'.op = "delete" /\ ret'.err = ErrNil
               /\ LiveVersion(secrets', e, k) = 0

\* C34: when two invocations set the same (e,k) at the same time, the key
\* existing or not, every commit gets a version of its own: there is never
\* more than one live row of (e,k), never two rows of one lineage of the
\* ledger with the same version, and each commit of a set, and nothing
\* else, raises the live version by one.
C34_EveryCommitHasItsVersion ==
    /\ []OneLiveRowDistinctVersions
    /\ [][CommitStep]_vars

\* two updates had read the same version; one has committed and the other
\* has been refused
C34_Witness ==
    /\ ret.op = "update" /\ ret.err = ErrBusy
    /\ \A w \in Invocations : conns[w].pc = "idle"
    /\ Len(history) = 2
    /\ history[2].change = ChangeTypeUpdate
    /\ LiveVersion(secrets, 1, <<66>>) = 2

\* two sets had both found no live row; one has created it and the other
\* has been refused
C34_CreateRace ==
    /\ ret.op = "create" /\ ret.err = "failed to create secret"
    /\ Len(history) = 1
    /\ LiveVersion(secrets, 1, <<66>>) = 1

(***************************************************************************)
(* Properties of the parent links the store's operations build.            *)
(***************************************************************************)
\* no environment is reached again by following parent links from it
NoEnvironmentIsItsOwnAncestor ==
    \A e \in environments :
       ~Revisits(environments, e.id, {}, Cardinality(environments) + 1)

\* every parent was created before its child
ParentsAreOlder ==
    \A e \in environments : e.parent # <<>> => e.parent[1] < e.id

\* C35: from the empty store, after any sequence of CreateEnvironment,
\* CreateEnvironmentWithParent, DeleteEnvironment and DeleteProject, the
\* parent links form a forest: every parent is a row of the table, no
\* environment is its own ancestor, and GetEnvironmentAncestors of any
\* environment does not fail with the circular-inheritance error.
C35_ParentLinksFormAForest ==
    /\ ParentsExist
    /\ ParentsAreOlder
    /\ NoEnvironmentIsItsOwnAncestor
    /\ \A e \in environments :
          GetEnvironmentAncestors(environments, e.id).err # ErrCircularInheritance

\* a child and its parent, created after an environment that has since been
\* deleted
C35_Witness ==
    /\ \E c, p \in environments :
          /\ c.parent = <<p.id>> /\ p.parent = <<>>
          /\ GetEnvironmentAncestors(environments, c.id).err = ErrNil
          /\ Len(GetEnvironmentAncestors(environments, c.id).list) = 1
    /\ 1 \notin EnvIds(environments)
    /\ nextId.env > 3

(***************************************************************************)
(* Properties of what IsInitialized reports.                               *)
(***************************************************************************)
\* C36: in every state reached through the vault's operations,
\* IsInitialized is true only if the vault metadata row exists: a vault that
\* reports initialized is unlocked by the password given to Initialize, and
\* a vault on which no Initialize has succeeded accepts Initialize.
C36_InitializedMeansMetadata ==
    /\ IsInitialized(vault) => vault.meta # <<>>
    /\ IsInitialized(vault)
          => Initialized /\ Unlock(vault, InitPassword, now).err = ErrNil
    /\ ~Initialized
          => \A p \in Passwords, s \in Salts, n \in Nonces :
                Initialize(vault, p, s, n, now).err = ErrNil

(***************************************************************************)
(* Properties of GetKey against IsUnlocked.                                *)
(***************************************************************************)
\* C37: at every instant and whatever the session file holds, GetKey
\* returns a key if and only if IsUnlocked returns true; the calls that have
\* just returned agree with it.
C37_GetKeyIffIsUnlocked ==
    /\ GetKey(vault, now).err = ErrNil <=> IsUnlocked(vault, now)
    /\ ret.op = "GetKey" /\ ret.err = ErrNil => IsUnlocked(vault, now)
    /\ ret.op = "IsUnlocked" /\ ret.res = <<FALSE>> => GetKey(vault, now).err # ErrNil

(***************************************************************************)
(* Properties of the live rows against the ledger.                         *)
(***************************************************************************)
\* every live row of db has a history row of its environment and key with
\* its version, ciphertext and nonce, of kind create at version 1 and of
\* kind update above
LiveRowsAreRecorded(db) ==
    \A s \in db.secrets :
       \E i \in 1..Len(db.history) :
          /\ db.history[i].env = s.env
          /\ db.history[i].key = s.key
          /\ db.history[i].version = s.version
          /\ db.history[i].value = s.value
          /\ db.history[i].nonce = s.nonce
          /\ db.history[i].change =
                IF s.version = 1 THEN ChangeTypeCreate ELSE ChangeTypeUpdate

\* C38: in every reachable state each live secret row (e,k) at version v
\* with ciphertext c and nonce n has a history row of (e,k) at version v
\* with the same c and n, of kind create when v = 1 and of kind update
\* otherwise; so it is after any further write, wherever that write fails.
C38_LiveRowsAreInTheLedger ==
    /\ LiveRowsAreRecorded(DB)
    /\ \A b \in Blobs, f \in FailPoints :
          /\ LiveRowsAreRecorded(CreateSecretTx(environments, DB, 1, <<66>>, b, f).db)
          /\ LiveRowsAreRecorded(UpdateSecretTx(DB, 1, <<66>>, b, f).db)
          /\ LiveRowsAreRecorded(DeleteSecretTx(DB, 1, <<66>>, f).db)

\* a key created, deleted, created again and updated with another
\* ciphertext: the live row is at version 2
C38_Witness ==
    /\ Len(history) = 4
    /\ history[2].change = ChangeTypeDelete
    /\ history[3].change = ChangeTypeCreate
    /\ history[4].change = ChangeTypeUpdate
    /\ history[4].value # history[3].value
    /\ \E s \in secrets : s.version = 2 /\ s.value = history[4].value

(***************************************************************************)
(* Properties of the two inheritance queries against each other.           *)
(***************************************************************************)
\* the entries of ListSecretsWithInheritance(e) for key k
EntriesFor(list, k) == { i \in 1..Len(list) : list[i].secret.key = k }

\* the listing of e has an entry for k exactly when the lookup of (e,k)
\* succeeds, and then the two name the same source and the same row
ListAgreesWithGet(e, k) ==
    LET l == ListSecretsWithInheritance(environments, secrets, e)
        g == GetSecretWithInheritance(environments, secrets, e, k)
    IN  /\ l.err = ErrNil
        /\ EntriesFor(l.res, k) # {} <=> g.err = ErrNil
        /\ \A i \in EntriesFor(l.res, k) :
              /\ l.res[i].sourceEnv = g.res[1].sourceEnv
              /\ l.res[i].inherited = g.res[1].inherited
              /\ l.res[i].secret.value = g.res[1].secret.value
              /\ l.res[i].secret.nonce = g.res[1].secret.nonce
              /\ l.res[i].secret.version = g.res[1].secret.version

\* C39: for every environment e of a store built through the store's
\* operations and every key k, ListSecretsWithInheritance(e) has an entry
\* for k if and only if GetSecretWithInheritance(e,k) succeeds, and then
\* both report the same source environment, inherited flag, ciphertext,
\* nonce and version.
C39_ListAndGetAgree ==
    \A e \in EnvIds(environments), k \in Keys : ListAgreesWithGet(e, k)

\* the grandchild has been listed: it inherits one key from its parent,
\* which overrides the grandparent, and has no entry for the other key
C39_Witness ==
    /\ ret.op = "ListSecretsWithInheritance" /\ ret.env = 3 /\ ret.err = ErrNil
    /\ Len(ret.res) = 1
    /\ ret.res[1].inherited /\ ret.res[1].sourceEnv = 2
    /\ ret.res[1].secret.version = 2
    /\ GetSecret(secrets, 1, ret.res[1].secret.key) # <<>>
    /\ \E k \in Keys :
          GetSecretWithInheritance(environments, secrets, 3, k).err = ErrNotFound

(***************************************************************************)
(* Properties of the versions in the ledger.                               *)
(***************************************************************************)
\* C40: in every reachable state the ledger holds at most one history row
\* per (environment, key, version), also after a key has been deleted and
\* created again: GetSecretVersion(e,k,v) matches at most one row, and the
\* row a restore has read is the only row of its version.
C40_OneRowPerVersion ==
    /\ \A i, j \in DOMAIN history :
          (/\ history[i].env = history[j].env
           /\ history[i].key = history[j].key
           /\ history[i].version = history[j].version) => i = j
    /\ \A h \in { history[i] : i \in DOMAIN history } :
          Cardinality(GetSecretVersion(history, h.env, h.key, h.version)) = 1

====
